---------------------------- MODULE Spec2Model ----------------------------
(***************************************************************************)
(* cargo-bisect-rustc: the predicate search (least_satisfying.rs), the     *)
(* test runner and toolchain store (toolchains.rs) and the two-phase       *)
(* orchestrator (main.rs), as state machines.                              *)
(*                                                                         *)
(* The module holds several specifications over one set of variables.      *)
(* Each specification drives one group of variables and leaves the other   *)
(* groups at their idle values:                                            *)
(*   SpecSearch  least_satisfying and midpoint_stable_offset               *)
(*   SpecRunner  Toolchain::test and Config::default_outcome_of_output     *)
(*   SpecStore   Toolchain::install / do_remove / remove_toolchain         *)
(*   SpecBisect  Config::bisect, nightly phase then commit phase           *)
(***************************************************************************)
EXTENDS Integers, Sequences, FiniteSets, TLC

VARIABLES
    \* ---- least_satisfying (least_satisfying.rs:11-101) ----
    slice,            \* the slice handed to least_satisfying (verdict of each element)
    start_offset,     \* offset of slice inside the bigger slice
    rm_no,            \* rightmost known No
    lm_yes,           \* leftmost known Yes
    next,             \* the index to probe
    unknown_ranges,   \* Vec<(usize, usize)>
    cache,            \* BTreeMap idx -> Satisfies
    calls,            \* per index: how often the caller's predicate ran
    r,                \* the verdict of the probe
    walk,             \* [left, right]: the cursors of the walk over a run of Unknown
    spc,              \* the line that runs next, or "idle" | "mid_call" | "mid_done"
    ret,              \* the value returned
    \* ---- a direct call of midpoint_stable_offset (least_satisfying.rs:261-271) ----
    mid_args,         \* [so, left, right]
    mid_out,          \* the record MidpointStable returns
    \* ---- Toolchain::test (toolchains.rs:394-435) ----
    test_cfg,         \* [regress, prompt, timeout]: the Config fields test reads
    output,           \* [code, stderr]: the process::Output of the last run_test
    outcome,          \* "None" | "Regressed" | "Baseline": what test returned
    runs,             \* how often run_test ran in this call
    tpc,              \* position in test: "idle" | "run" | "ran" | "select" | "done" |
                      \* "panicked" | "classify" | "classified"
    \* ---- the toolchain store (toolchains.rs:128-310, main.rs:610-647) ----
    fs,               \* the names of the entries of the install root (toolchains_path)
    links,            \* those of them that are symlinks (rustup toolchain link)
    scratch,          \* how many scratch directories the temp root holds
    targets,          \* the toolchain names with a target-<name> directory in test_dir
    default_nightly,  \* Toolchain::default_nightly(): {} or {date}
    store_cfg,        \* [force_install, preserve, preserve_target]
    op,               \* the operation under way: "install" | "remove" | "remove_toolchain" | "test"
    tc,               \* the Toolchain it works on
    tmpdir,           \* install holds a TempDir
    dest_before,      \* the target directory existed when install was called
    ipc,              \* position in the operation
    result,           \* what the operation returned
    \* ---- Config::bisect (main.rs:478-523, 556-607, 750-1115) ----
    world,            \* what the run meets: [regress, alt, inj, today, broken]
    bounds,           \* Config.bounds: [kind, start, end]
    nightly_date,     \* bisect_nightlies: the date under test
    last_failure,     \* bisect_nightlies: the oldest date seen to regress
    first_success,    \* bisect_nightlies: {} (None) or {date}
    nightly_iter,     \* NightlyFinderIter: [start_date, current_date]
    toolchains,       \* the toolchains handed to bisect_to_regression
    nightly_result,   \* BisectionResult of the nightly phase: [searched, found]
    ci_result,        \* BisectionResult of the commit phase: [searched, found]
    previous_date,    \* bisect: the date whose commit starts the commit phase
    working_commit,   \* bisect: the commit of previous_date
    bad_commit,       \* bisect: the commit of the regressing nightly
    printed,          \* the lines written to standard error, in order
    evaluated,        \* the toolchains installed and tested in this phase, in order
    berr,             \* the error bisect returned: [msg, at], msg "None" if none
    bpc,              \* position in bisect
    \* ---- the downloads of Toolchain::install (toolchains.rs:183-286, 517-612) ----
    server,           \* what the server answers to a request of each URL
    dl_params,        \* DownloadParams: [without_cargo, install_src, install_dev]
    components,       \* the components still to download, in order
    requests,         \* the URLs requested so far, in order
    dl_result,        \* what install returned: [kind, cause, url]
    dpc,              \* position in the downloads
    \* ---- Bounds::from_args (bounds.rs:68-225) ----
    args,             \* Opts: [start, end, by_commit]
    env,              \* what from_args meets: [today, installed, latest, merge_base]
    translated,       \* what translate_tags returned: [ok, start, end]
    fa_result,        \* what from_args returned: Bounds or an error
    apc,              \* position in from_args
    \* ---- NightlyFinderIter (main.rs:713-747) ----
    finder,           \* the iterator: [start_date, current_date]
    yielded,          \* the dates it has yielded, in order
    \* ---- Config::bisect_ci_via and the repository access (main.rs:989-1040, git.rs:145-208, github.rs:136-192) ----
    history,          \* the first-parent chain of the default branch: commit i has parent i - 1
    query,            \* what bisect_ci_via was called with: [start, end, access]
    listed,           \* what access.commits returned: [kind, commits]
    handed,           \* the commits handed to bisect_ci_in_commits
    probed,           \* the commits whose toolchain has been installed
    via_err,          \* the error bisect_ci_via returned, "None" if none
    rpc,              \* position in bisect_ci_via
    \* ---- extract_perf_builds (main.rs:1241-1295) ----
    body,             \* the body of the comment, a sequence of characters
    lines_left,       \* the lines of the body the loop has still to see
    builds,           \* PerfBuildsContext::builds
    descriptions,     \* PerfBuildsContext::descriptions
    xpc,              \* position in extract_perf_builds
    \* ---- Config::search_perf_builds and linear_in_commits (main.rs:1117-1187) ----
    perf_in,          \* what the call meets: [kind, commit_ok, summary, comments, outcomes]
    fetched,          \* the pull requests whose comments were asked for, in order
    perf_builds,      \* the builds extract_perf_builds found in the comment
    perf_probed,      \* the indices linear_in_commits has installed and tested, in order
    perf_out,         \* what search_perf_builds returned: [kind, found, msg]
    ppc,              \* position in search_perf_builds
    \* ---- main, run and Config::from_args (main.rs:363-417, 1207-1218) ----
    main_in,          \* what the run meets: [home, bounds, checkout_missing, install, outcome]
    created,          \* the directories the run has made
    installed_any,    \* a toolchain has been installed
    run_result,       \* what run returned: [kind, msg, code]
    stderr_error,     \* the ERROR: line of main, "None" if none
    exit_status,      \* the exit status of the process, -1 while it runs
    mpc               \* position in main

searchVars == <<slice, start_offset, rm_no, lm_yes, next, unknown_ranges, cache,
                calls, r, walk, spc, ret, mid_args, mid_out>>

runnerVars == <<test_cfg, output, outcome, runs, tpc>>

storeVars == <<fs, links, scratch, targets, default_nightly, store_cfg, op, tc,
               tmpdir, dest_before, ipc, result>>

bisectVars == <<world, bounds, nightly_date, last_failure, first_success,
                nightly_iter, toolchains, nightly_result, ci_result,
                previous_date, working_commit, bad_commit, printed, evaluated, berr,
                bpc>>

downloadVars == <<server, dl_params, components, requests, dl_result, dpc>>

argVars == <<args, env, translated, fa_result, apc>>

finderVars == <<finder, yielded>>

repoVars == <<history, query, listed, handed, probed, via_err, rpc>>

extractVars == <<body, lines_left, builds, descriptions, xpc>>

perfVars == <<perf_in, fetched, perf_builds, perf_probed, perf_out, ppc>>

mainVars == <<main_in, created, installed_any, run_result, stderr_error, exit_status,
              mpc>>

\* the groups of the parts modelled on their own
laterVars == <<downloadVars, argVars, finderVars, repoVars, extractVars, perfVars, mainVars>>

\* what the search leaves alone
outsideSearch == <<runnerVars, storeVars, bisectVars, laterVars>>
\* what the test runner leaves alone
outsideRunner == <<searchVars, storeVars, bisectVars, laterVars>>
\* what the toolchain store leaves alone
outsideStore == <<searchVars, runnerVars, bisectVars, laterVars>>
\* what the orchestrator leaves alone (the search it calls apart)
outsideBisect == <<runnerVars, storeVars, laterVars>>
\* what the downloads leave alone
outsideDownload == <<searchVars, runnerVars, storeVars, bisectVars, argVars,
                     finderVars, repoVars, extractVars, perfVars, mainVars>>
\* what from_args leaves alone
outsideArgs == <<searchVars, runnerVars, storeVars, bisectVars, downloadVars,
                 finderVars, repoVars, extractVars, perfVars, mainVars>>
\* what the iterator leaves alone
outsideFinder == <<searchVars, runnerVars, storeVars, bisectVars, downloadVars,
                   argVars, repoVars, extractVars, perfVars, mainVars>>
\* what bisect_ci_via leaves alone
outsideRepo == <<searchVars, runnerVars, storeVars, bisectVars, downloadVars, argVars,
                 finderVars, extractVars, perfVars, mainVars>>
\* what extract_perf_builds leaves alone
outsideExtract == <<searchVars, runnerVars, storeVars, bisectVars, downloadVars,
                    argVars, finderVars, repoVars, perfVars, mainVars>>
\* what search_perf_builds leaves alone
outsidePerf == <<searchVars, runnerVars, storeVars, bisectVars, downloadVars, argVars,
                 finderVars, repoVars, extractVars, mainVars>>
\* what main leaves alone
outsideMain == <<searchVars, runnerVars, storeVars, bisectVars, downloadVars, argVars,
                 finderVars, repoVars, extractVars, perfVars>>

vars == <<searchVars, runnerVars, storeVars, bisectVars, laterVars>>

-----------------------------------------------------------------------------
(* Bounds of the model. *)

\* usize is modelled BITS wide; every index of the model stays below 2^BITS.
BITS == 8
\* longest slice handed to least_satisfying
MaxLen == 5
\* largest start_offset
MaxOffset == 3
\* longest slice without Unknown handed to least_satisfying
MaxDeep == 16
\* largest argument of a direct midpoint_stable_offset call
MaxIndex == 64
\* most runs of the test command in one call of Toolchain::test (--prompt retries)
MaxRuns == 2
\* most scratch directories a failed rename may leave in the temp root
MaxScratch == 1
\* the days on which a nightly was published
MaxDay == 3
\* the merge commits of one day
CommitsPerDay == 3
\* the age in days at which a CI build is gone (main.rs:1049)
RetentionDays == 167
\* the latest day a nightly walk starts from
MaxWalkDay == 6

-----------------------------------------------------------------------------
(* Satisfies (least_satisfying.rs:314-319) *)
Yes == "Yes"
No == "No"
Unknown == "Unknown"
Satisfies == {Yes, No, Unknown}

-----------------------------------------------------------------------------
(* usize bit operations, bit by bit (recursive functions of the operands). *)

Pow2F[n \in Nat] == IF n = 0 THEN 1 ELSE 2 * Pow2F[n - 1]
Pow2(n) == Pow2F[n]

BitAndF[a \in Nat, b \in Nat] ==
    IF a = 0 \/ b = 0 THEN 0
    ELSE (a % 2) * (b % 2) + 2 * BitAndF[a \div 2, b \div 2]
BitAnd(a, b) == BitAndF[a, b]

BitOrF[a \in Nat, b \in Nat] ==
    IF a = 0 THEN b
    ELSE IF b = 0 THEN a
    ELSE (IF a % 2 = 1 \/ b % 2 = 1 THEN 1 ELSE 0) + 2 * BitOrF[a \div 2, b \div 2]
BitOr(a, b) == BitOrF[a, b]

BitXorF[a \in Nat, b \in Nat] ==
    IF a = 0 THEN b
    ELSE IF b = 0 THEN a
    ELSE (((a % 2) + (b % 2)) % 2) + 2 * BitXorF[a \div 2, b \div 2]
BitXor(a, b) == BitXorF[a, b]

\* !x on a BITS-wide usize
BitNot(x) == Pow2(BITS) - 1 - x

\* usize::leading_zeros
BitLenF[x \in Nat] == IF x = 0 THEN 0 ELSE 1 + BitLenF[x \div 2]
LeadingZeros(x) == BITS - BitLenF[x]

\* usize::trailing_zeros (BITS for 0)
TrailingZerosF[x \in Nat] ==
    IF x = 0 THEN BITS ELSE IF x % 2 = 1 THEN 0 ELSE 1 + TrailingZerosF[x \div 2]
trailing_zeros(x) == TrailingZerosF[x]

\* usize::wrapping_shr: the shift amount is taken modulo the width
wrapping_shr(x, n) == x \div Pow2(n % BITS)

\* least_satisfying.rs:310-312
isolate_most_significant_one(x) ==
    BitAnd(x, wrapping_shr(Pow2(BITS - 1), LeadingZeros(x)))

-----------------------------------------------------------------------------
(* midpoint_stable (least_satisfying.rs:279-306).  The result is a record:  *)
(*   mid     the index returned (0 when an assertion failed)                *)
(*   a0      assert!((right - left) > 1)                                    *)
(*   a1      assert!(left & diff == 0)                                      *)
(*   a2      assert!((right - 1) & diff > 0)                                *)
(* A failed assertion panics: the later ones are then not evaluated and are *)
(* reported TRUE.                                                           *)

\* the mutant: the bit that diff isolates is not forced to 1 (mask & left alone)
MidpointFromDiff_noForcedBit(left, right, diff) ==
    IF BitAnd(left, diff) # 0
    THEN [mid |-> 0, a0 |-> TRUE, a1 |-> FALSE, a2 |-> TRUE]
    ELSE IF ~(BitAnd(right - 1, diff) > 0)
    THEN [mid |-> 0, a0 |-> TRUE, a1 |-> TRUE, a2 |-> FALSE]
    ELSE [mid |-> BitAnd(BitNot(diff - 1), left),
          a0 |-> TRUE, a1 |-> TRUE, a2 |-> TRUE]

\* least_satisfying.rs:299-305, diff being isolate_most_significant_one(left ^ (right - 1))
MidpointFromDiff(left, right, diff) ==
    IF BitAnd(left, diff) # 0
    THEN [mid |-> 0, a0 |-> TRUE, a1 |-> FALSE, a2 |-> TRUE]
    ELSE IF ~(BitAnd(right - 1, diff) > 0)
    THEN [mid |-> 0, a0 |-> TRUE, a1 |-> TRUE, a2 |-> FALSE]
    ELSE [mid |-> BitOr(BitAnd(BitNot(diff - 1), left), diff),
          a0 |-> TRUE, a1 |-> TRUE, a2 |-> TRUE]

\* the mutant: the plain arithmetic midpoint, the "return (left + right)/2" that
\* least_satisfying.rs:262 comments out
MidpointStable_arithmetic(left, right) ==
    IF ~(right - left > 1)
    THEN [mid |-> 0, a0 |-> FALSE, a1 |-> TRUE, a2 |-> TRUE]
    ELSE [mid |-> (left + right) \div 2, a0 |-> TRUE, a1 |-> TRUE, a2 |-> TRUE]

MidpointStable(left, right) ==
    IF ~(right - left > 1)
    THEN [mid |-> 0, a0 |-> FALSE, a1 |-> TRUE, a2 |-> TRUE]
    ELSE IF left + 1 = right - 1
    THEN [mid |-> left + 1, a0 |-> TRUE, a1 |-> TRUE, a2 |-> TRUE]
    ELSE MidpointFromDiff(left, right,
                          isolate_most_significant_one(BitXor(left, right - 1)))

MidPanics(m) == ~(m.a0 /\ m.a1 /\ m.a2)

\* least_satisfying.rs:270, m being midpoint_stable's result and so1 = start_offset + 1
Unoffset(m, so1) == IF MidPanics(m) THEN m ELSE [m EXCEPT !.mid = @ - so1]

\* midpoint_stable_offset (least_satisfying.rs:261-271): the record of
\* midpoint_stable with mid mapped back through the one-based offset.
MidpointStableOffset(so, left, right) ==
    Unoffset(MidpointStable(left + (so + 1), right + (so + 1)), so + 1)

-----------------------------------------------------------------------------
(* least_satisfying (least_satisfying.rs:11-101) *)

\* slice[idx], Rust's zero-based index
At(idx) == slice[idx + 1]

(* The caching closure (least_satisfying.rs:17-44) on cache c and call       *)
(* counts k, called as predicate(idx, rm_no, lm_yes).  panic: the range      *)
(* lm_yes - rm_no + 1 underflows (line 18) or slice[idx] is out of bounds    *)
(* (line 43).  The caller's predicate runs only when the cache holds no      *)
(* entry (or_insert_with).                                                   *)

\* the mutant: the verdict is computed anew on every request; the entry is
\* still written
CachedPredicate_noLookup(c, k, idx) ==
    IF lm_yes < rm_no \/ idx >= Len(slice)
    THEN [panic |-> TRUE, r |-> Unknown, cache |-> c, calls |-> k]
    ELSE [panic |-> FALSE,
          r     |-> At(idx),
          cache |-> [i \in DOMAIN c \cup {idx} |-> IF i = idx THEN At(idx) ELSE c[i]],
          calls |-> [k EXCEPT ![idx] = @ + 1]]

CachedPredicate(c, k, idx) ==
    IF lm_yes < rm_no
    THEN [panic |-> TRUE, r |-> Unknown, cache |-> c, calls |-> k]
    ELSE IF idx \in DOMAIN c
    THEN [panic |-> FALSE, r |-> c[idx], cache |-> c, calls |-> k]
    ELSE IF idx >= Len(slice)
    THEN [panic |-> TRUE, r |-> Unknown, cache |-> c, calls |-> k]
    ELSE [panic |-> FALSE,
          r     |-> At(idx),
          cache |-> [i \in DOMAIN c \cup {idx} |-> IF i = idx THEN At(idx) ELSE c[i]],
          calls |-> [k EXCEPT ![idx] = @ + 1]]

(* The for loop over unknown_ranges (least_satisfying.rs:62-76), from range *)
(* i on, with the probe nxt.  kind: "return" (straddling an unknown range), *)
(* "probe" (probe nxt) or "panic" (left - 1 underflows).                     *)
\* the mutant: a probe inside a recorded unknown range is not moved out of it
RECURSIVE ScanRanges_noAdjust(_, _)
ScanRanges_noAdjust(i, nxt) ==
    IF i > Len(unknown_ranges) THEN [kind |-> "probe", next |-> nxt]
    ELSE IF rm_no + 1 = unknown_ranges[i][1] /\ unknown_ranges[i][2] + 1 = lm_yes
    THEN [kind |-> "return", next |-> nxt]
    ELSE IF unknown_ranges[i][1] <= nxt /\ nxt <= unknown_ranges[i][2]
    THEN [kind |-> "probe", next |-> nxt]
    ELSE ScanRanges_noAdjust(i + 1, nxt)

\* the mutant: the search returns as soon as an unknown range starts right
\* after rm_no, whether or not the range reaches lm_yes
RECURSIVE ScanRanges_leftOnly(_, _)
ScanRanges_leftOnly(i, nxt) ==
    IF i > Len(unknown_ranges) THEN [kind |-> "probe", next |-> nxt]
    ELSE IF rm_no + 1 = unknown_ranges[i][1]
    THEN [kind |-> "return", next |-> nxt]
    ELSE IF unknown_ranges[i][1] <= nxt /\ nxt <= unknown_ranges[i][2]
    THEN IF unknown_ranges[i][1] = 0 THEN [kind |-> "panic", next |-> nxt]
         ELSE IF rm_no < unknown_ranges[i][1] - 1
         THEN [kind |-> "probe", next |-> unknown_ranges[i][1] - 1]
         ELSE IF unknown_ranges[i][2] < lm_yes
         THEN [kind |-> "probe", next |-> unknown_ranges[i][2] + 1]
         ELSE [kind |-> "probe", next |-> nxt]
    ELSE ScanRanges_leftOnly(i + 1, nxt)

RECURSIVE ScanRanges(_, _)
ScanRanges(i, nxt) ==
    IF i > Len(unknown_ranges) THEN [kind |-> "probe", next |-> nxt]
    ELSE LET left  == unknown_ranges[i][1]
             right == unknown_ranges[i][2]
         IN  IF rm_no + 1 = left /\ right + 1 = lm_yes
             THEN [kind |-> "return", next |-> nxt]
             ELSE IF left <= nxt /\ nxt <= right
             THEN IF left = 0 THEN [kind |-> "panic", next |-> nxt]
                  ELSE IF rm_no < left - 1 THEN [kind |-> "probe", next |-> left - 1]
                  ELSE IF right < lm_yes THEN [kind |-> "probe", next |-> right + 1]
                  ELSE [kind |-> "probe", next |-> nxt]
             ELSE ScanRanges(i + 1, nxt)

(* The loop of least_satisfying (least_satisfying.rs:55-100) runs in steps,  *)
(* spc naming the line that runs next:                                       *)
(*   "loop"        line 57, the top of an iteration                          *)
(*   "scan"        line 62, next holds the midpoint                          *)
(*   "test"        line 78, next holds the probe                             *)
(*   "match"       line 79, r holds the probe's verdict                      *)
(*   "walk_left"   line 88, "walk_right" line 92                             *)
(*   "returned", "panicked"   the call is over                               *)

searchLocals == <<rm_no, lm_yes, next, unknown_ranges, cache, calls, r, walk, ret>>

\* least_satisfying(s, so, |i, _, _| *i) up to the loop (least_satisfying.rs:16-54)
SearchEntry(s, so) ==
    /\ slice' = s
    /\ start_offset' = so
    /\ rm_no' = 0
    /\ lm_yes' = Len(s) - 1
    /\ next' = 0
    /\ unknown_ranges' = <<>>
    /\ cache' = <<>>
    /\ calls' = [i \in 0 .. Len(s) - 1 |-> 0]
    /\ r' = No
    /\ walk' = [left |-> 0, right |-> 0]
    /\ spc' = "loop"
    /\ ret' = 0

\* least_satisfying.rs:57-59
ReturnAdjacent ==
    /\ spc = "loop"
    /\ rm_no + 1 = lm_yes
    /\ spc' = "returned"
    /\ ret' = lm_yes
    /\ UNCHANGED <<slice, start_offset, rm_no, lm_yes, next, unknown_ranges, cache,
                   calls, r, walk, mid_args, mid_out>>
    /\ UNCHANGED outsideSearch

\* mp is what midpoint_stable_offset answered: a failed assertion ends the call
GotMidpoint(mp) ==
    /\ spc' = IF MidPanics(mp) THEN "panicked" ELSE "scan"
    /\ next' = IF MidPanics(mp) THEN next ELSE mp.mid

\* least_satisfying.rs:60
Midpoint ==
    /\ spc = "loop"
    /\ rm_no + 1 # lm_yes
    /\ GotMidpoint(MidpointStableOffset(start_offset, rm_no, lm_yes))
    /\ UNCHANGED <<slice, start_offset, rm_no, lm_yes, unknown_ranges, cache,
                   calls, r, walk, ret, mid_args, mid_out>>
    /\ UNCHANGED outsideSearch

\* least_satisfying.rs:62-66: the probe straddles a recorded unknown range
ReturnStraddling ==
    /\ spc = "scan"
    /\ ScanRanges(1, next).kind = "return"
    /\ spc' = "returned"
    /\ ret' = lm_yes
    /\ UNCHANGED <<slice, start_offset, rm_no, lm_yes, next, unknown_ranges, cache,
                   calls, r, walk, mid_args, mid_out>>
    /\ UNCHANGED outsideSearch

\* sc is what the for loop over unknown_ranges left
Scanned(sc) ==
    /\ spc' = IF sc.kind = "panic" THEN "panicked" ELSE "test"
    /\ next' = sc.next

\* least_satisfying.rs:62-76
Scan ==
    /\ spc = "scan"
    /\ ScanRanges(1, next).kind # "return"
    /\ Scanned(ScanRanges(1, next))
    /\ UNCHANGED <<slice, start_offset, rm_no, lm_yes, unknown_ranges, cache,
                   calls, r, walk, ret, mid_args, mid_out>>
    /\ UNCHANGED outsideSearch

\* p is the closure's answer for the probe
Tested(p) ==
    /\ spc' = IF p.panic THEN "panicked" ELSE "match"
    /\ r' = p.r
    /\ cache' = p.cache
    /\ calls' = p.calls

\* least_satisfying.rs:78
Test ==
    /\ spc = "test"
    /\ Tested(CachedPredicate(cache, calls, next))
    /\ UNCHANGED <<slice, start_offset, rm_no, lm_yes, next, unknown_ranges,
                   walk, ret, mid_args, mid_out>>
    /\ UNCHANGED outsideSearch

\* least_satisfying.rs:80-82
MatchYes ==
    /\ spc = "match"
    /\ r = Yes
    /\ lm_yes' = next
    /\ spc' = "loop"
    /\ UNCHANGED <<slice, start_offset, rm_no, next, unknown_ranges, cache,
                   calls, r, walk, ret, mid_args, mid_out>>
    /\ UNCHANGED outsideSearch

\* least_satisfying.rs:83-85
MatchNo ==
    /\ spc = "match"
    /\ r = No
    /\ rm_no' = next
    /\ spc' = "loop"
    /\ UNCHANGED <<slice, start_offset, lm_yes, next, unknown_ranges, cache,
                   calls, r, walk, ret, mid_args, mid_out>>
    /\ UNCHANGED outsideSearch

\* least_satisfying.rs:86-87
MatchUnknown ==
    /\ spc = "match"
    /\ r = Unknown
    /\ walk' = [walk EXCEPT !.left = next]
    /\ spc' = "walk_left"
    /\ UNCHANGED <<slice, start_offset, rm_no, lm_yes, next, unknown_ranges, cache,
                   calls, r, ret, mid_args, mid_out>>
    /\ UNCHANGED outsideSearch

\* p is the closure's answer at walk.left: on Unknown the walk goes on, on
\* anything else line 91 starts the walk to the right
WalkedLeft(p) ==
    /\ spc' = IF p.panic THEN "panicked"
              ELSE IF p.r = Unknown THEN "walk_left" ELSE "walk_right"
    /\ walk' = IF p.panic THEN walk
               ELSE IF p.r = Unknown THEN [walk EXCEPT !.left = @ - 1]
               ELSE [walk EXCEPT !.right = next]
    /\ cache' = p.cache
    /\ calls' = p.calls

\* least_satisfying.rs:88-91
WalkLeft ==
    /\ spc = "walk_left"
    /\ IF walk.left > 0
       THEN WalkedLeft(CachedPredicate(cache, calls, walk.left))
       ELSE /\ spc' = "walk_right"
            /\ walk' = [walk EXCEPT !.right = next]
            /\ UNCHANGED <<cache, calls>>
    /\ UNCHANGED <<slice, start_offset, rm_no, lm_yes, next, unknown_ranges,
                   r, ret, mid_args, mid_out>>
    /\ UNCHANGED outsideSearch

\* least_satisfying.rs:97; right - 1 underflows at 0
PushRange ==
    /\ spc' = IF walk.right = 0 THEN "panicked" ELSE "loop"
    /\ unknown_ranges' = IF walk.right = 0 THEN unknown_ranges
                         ELSE Append(unknown_ranges, <<walk.left + 1, walk.right - 1>>)
    /\ UNCHANGED walk

\* p is the closure's answer at walk.right
WalkedRight(p) ==
    /\ cache' = p.cache
    /\ calls' = p.calls
    /\ IF p.panic
       THEN spc' = "panicked" /\ UNCHANGED <<walk, unknown_ranges>>
       ELSE IF p.r = Unknown
       THEN /\ walk' = [walk EXCEPT !.right = @ + 1]
            /\ UNCHANGED <<spc, unknown_ranges>>
       ELSE PushRange

\* least_satisfying.rs:92-97
WalkRight ==
    /\ spc = "walk_right"
    /\ IF walk.right + 1 < Len(slice)
       THEN WalkedRight(CachedPredicate(cache, calls, walk.right))
       ELSE PushRange /\ UNCHANGED <<cache, calls>>
    /\ UNCHANGED <<slice, start_offset, rm_no, lm_yes, next, r, ret, mid_args, mid_out>>
    /\ UNCHANGED outsideSearch

(* A direct call of midpoint_stable_offset, as the unit tests make           *)
(* (least_satisfying.rs:211-257).                                            *)
MidpointEntry(so, left, right) ==
    /\ mid_args' = [so |-> so, left |-> left, right |-> right]
    /\ spc' = "mid_call"
    /\ UNCHANGED <<slice, start_offset, mid_out>>
    /\ UNCHANGED searchLocals

MidpointCall ==
    /\ spc = "mid_call"
    /\ mid_out' = MidpointStableOffset(mid_args.so, mid_args.left, mid_args.right)
    /\ spc' = "mid_done"
    /\ UNCHANGED <<slice, start_offset, mid_args>>
    /\ UNCHANGED searchLocals
    /\ UNCHANGED outsideSearch

\* every slice of 1 .. MaxLen verdicts
Slices == UNION {[1 .. n -> Satisfies] : n \in 1 .. MaxLen}

\* nothing has been called yet
SearchIdle ==
    /\ slice = <<>> /\ start_offset = 0 /\ rm_no = 0 /\ lm_yes = 0 /\ next = 0
    /\ unknown_ranges = <<>> /\ cache = <<>> /\ calls = <<>>
    /\ r = No /\ walk = [left |-> 0, right |-> 0]
    /\ spc = "idle" /\ ret = 0
    /\ mid_args = [so |-> 0, left |-> 0, right |-> 0]
    /\ mid_out = [mid |-> 0, a0 |-> TRUE, a1 |-> TRUE, a2 |-> TRUE]

\* a caller hands least_satisfying a slice and an offset
CallSearch ==
    /\ spc = "idle"
    /\ \E s \in Slices, so \in 0 .. MaxOffset : SearchEntry(s, so)
    /\ UNCHANGED <<mid_args, mid_out>>
    /\ UNCHANGED outsideSearch

\* the slices of 2 .. MaxDeep verdicts that are No up to some element and
\* Yes from the next on: the slices bisect_to_regression hands over when
\* every toolchain installs and the regression stays once it is there
Monotones ==
    UNION {{[i \in 1 .. n |-> IF i <= k THEN No ELSE Yes] : k \in 1 .. n - 1} :
              n \in 2 .. MaxDeep}

\* a caller hands least_satisfying such a slice and an offset
CallSearchMonotone ==
    /\ spc = "idle"
    /\ \E s \in Monotones, so \in 0 .. MaxOffset : SearchEntry(s, so)
    /\ UNCHANGED <<mid_args, mid_out>>
    /\ UNCHANGED outsideSearch

\* a caller hands midpoint_stable_offset two indices
CallMidpoint ==
    /\ spc = "idle"
    /\ \E so \in 0 .. MaxOffset, left \in 0 .. MaxIndex, right \in 0 .. MaxIndex :
          MidpointEntry(so, left, right)
    /\ UNCHANGED outsideSearch

\* the steps of a running call of least_satisfying
SearchStep ==
    \/ ReturnAdjacent
    \/ Midpoint
    \/ ReturnStraddling
    \/ Scan
    \/ Test
    \/ MatchYes
    \/ MatchNo
    \/ MatchUnknown
    \/ WalkLeft
    \/ WalkRight

-----------------------------------------------------------------------------
(* Config::default_outcome_of_output (main.rs:245-285) and Toolchain::test   *)
(* (toolchains.rs:312-435).                                                  *)

\* RegressOn (main.rs:303-342)
Error == "Error"
Success == "Success"
Ice == "Ice"
NonIce == "NonIce"
NonError == "NonError"
RegressOn == {Error, Success, Ice, NonIce, NonError}

\* TestOutcome (toolchains.rs:52-56)
Baseline == "Baseline"
Regressed == "Regressed"

\* what the standard error of the test command may hold: the three texts
\* main.rs:254-256 looks for, and a diagnostic that is none of them
IceMarker == "error: internal compiler error"
StackMarker == "' has overflowed its stack"
PanicMarker == "error: the compiler unexpectedly panicked"
OtherLine == "error[E0308]: mismatched types"
StderrLines == {IceMarker, StackMarker, PanicMarker, OtherLine}

\* the exit code the timeout wrapper gives on expiration (toolchains.rs:402)
TimeoutCode == 124
\* status.code() of a process a signal killed is None
Killed == -1
ExitCodes == {0, 1, 101, TimeoutCode, Killed}

\* ExitStatus::success
success(code) == code = 0

\* main.rs:254-256; a text is the set of the lines it contains
saw_ice(stderr) ==
    \/ IceMarker \in stderr
    \/ StackMarker \in stderr
    \/ PanicMarker \in stderr

\* RegressOn::must_process_stderr (main.rs:344-351)
must_process_stderr(regress) == regress \in {NonError, Ice, NonIce}

\* the mutant: non-error judged as success is, a failing run is Baseline
\* whatever the standard error holds
default_outcome_of_output_nonErrorAsSuccess(regress, out) ==
    IF (regress = Error /\ success(out.code)) \/ (regress = Success /\ ~success(out.code))
    THEN Baseline
    ELSE IF (regress = Error /\ ~success(out.code))
            \/ (regress \in {Success, NonError} /\ success(out.code))
    THEN Regressed
    ELSE IF regress = Ice
    THEN (IF saw_ice(out.stderr) THEN Regressed ELSE Baseline)
    ELSE IF regress = NonError
    THEN Baseline
    ELSE (IF saw_ice(out.stderr) THEN Baseline ELSE Regressed)

\* Config::default_outcome_of_output (main.rs:245-285), the arms of the match
\* in their order
default_outcome_of_output(regress, out) ==
    IF (regress = Error /\ success(out.code)) \/ (regress = Success /\ ~success(out.code))
    THEN Baseline
    ELSE IF (regress = Error /\ ~success(out.code))
            \/ (regress \in {Success, NonError} /\ success(out.code))
    THEN Regressed
    ELSE IF regress = Ice \/ (regress = NonError /\ ~success(out.code))
    THEN (IF saw_ice(out.stderr) THEN Regressed ELSE Baseline)
    ELSE (IF saw_ice(out.stderr) THEN Baseline ELSE Regressed)

RunnerIdle ==
    /\ test_cfg = [regress |-> Error, prompt |-> FALSE, timeout |-> "None"]
    /\ output = [code |-> 0, stderr |-> {}]
    /\ outcome = "None"
    /\ runs = 0
    /\ tpc = "idle"

\* Toolchain::test is called under some configuration (toolchains.rs:394)
CallTest ==
    /\ tpc = "idle"
    /\ \E regress \in RegressOn, prompt \in BOOLEAN, timeout \in {"None", "Some"} :
          test_cfg' = [regress |-> regress, prompt |-> prompt, timeout |-> timeout]
    /\ tpc' = "run"
    /\ UNCHANGED <<output, outcome, runs>>
    /\ UNCHANGED outsideRunner

\* run_test (toolchains.rs:312-392): the command ends with some exit status
\* and some standard error, which is captured only under the policies that
\* read it (lines 361-376)
RunTest ==
    /\ tpc = "run"
    /\ \E code \in ExitCodes, err \in SUBSET StderrLines :
          output' = [code   |-> code,
                     stderr |-> IF must_process_stderr(test_cfg.regress) THEN err ELSE {}]
    /\ runs' = runs + 1
    /\ tpc' = "ran"
    /\ UNCHANGED <<test_cfg, outcome>>
    /\ UNCHANGED outsideRunner

\* toolchains.rs:430-432: without --prompt the output is classified
Classify ==
    /\ tpc = "ran"
    /\ ~test_cfg.prompt
    /\ outcome' = default_outcome_of_output(test_cfg.regress, output)
    /\ tpc' = "done"
    /\ UNCHANGED <<test_cfg, output, runs>>
    /\ UNCHANGED outsideRunner

\* toolchains.rs:402-405: with --prompt, exit code 124 under --timeout
TimedOut ==
    /\ tpc = "ran"
    /\ test_cfg.prompt
    /\ output.code = TimeoutCode
    /\ test_cfg.timeout = "Some"
    /\ outcome' = Regressed
    /\ tpc' = "done"
    /\ UNCHANGED <<test_cfg, output, runs>>
    /\ UNCHANGED outsideRunner

\* toolchains.rs:402-406: with --prompt, exit code 124 and no --timeout
TimedOutUnasked ==
    /\ tpc = "ran"
    /\ test_cfg.prompt
    /\ output.code = TimeoutCode
    /\ test_cfg.timeout = "None"
    /\ tpc' = "panicked"
    /\ UNCHANGED <<test_cfg, output, outcome, runs>>
    /\ UNCHANGED outsideRunner

\* toolchains.rs:409-417: the user is asked
Prompt ==
    /\ tpc = "ran"
    /\ test_cfg.prompt
    /\ output.code # TimeoutCode
    /\ tpc' = "select"
    /\ UNCHANGED <<test_cfg, output, outcome, runs>>
    /\ UNCHANGED outsideRunner

\* toolchains.rs:419-425: "mark regressed"
SelectRegressed ==
    /\ tpc = "select"
    /\ outcome' = Regressed
    /\ tpc' = "done"
    /\ UNCHANGED <<test_cfg, output, runs>>
    /\ UNCHANGED outsideRunner

\* toolchains.rs:419-426: "mark baseline"
SelectBaseline ==
    /\ tpc = "select"
    /\ outcome' = Baseline
    /\ tpc' = "done"
    /\ UNCHANGED <<test_cfg, output, runs>>
    /\ UNCHANGED outsideRunner

\* toolchains.rs:419-427: "retry"
SelectRetry ==
    /\ tpc = "select"
    /\ runs < MaxRuns
    /\ tpc' = "run"
    /\ UNCHANGED <<test_cfg, output, outcome, runs>>
    /\ UNCHANGED outsideRunner

\* a direct call of default_outcome_of_output on any policy and output
CallClassify ==
    /\ tpc = "idle"
    /\ \E regress \in RegressOn, code \in ExitCodes, err \in SUBSET StderrLines :
          /\ test_cfg' = [regress |-> regress, prompt |-> FALSE, timeout |-> "None"]
          /\ output' = [code |-> code, stderr |-> err]
    /\ tpc' = "classify"
    /\ UNCHANGED <<outcome, runs>>
    /\ UNCHANGED outsideRunner

ClassifyCall ==
    /\ tpc = "classify"
    /\ outcome' = default_outcome_of_output(test_cfg.regress, output)
    /\ tpc' = "classified"
    /\ UNCHANGED <<test_cfg, output, runs>>
    /\ UNCHANGED outsideRunner

-----------------------------------------------------------------------------
(* The toolchain store: Toolchain::rustup_name, install, remove, do_remove   *)
(* (toolchains.rs:72-88, 128-310) and remove_toolchain (main.rs:610-647).    *)
(* A string is the sequence of its characters.                               *)

BisectorCi == <<"b", "i", "s", "e", "c", "t", "o", "r", "-", "c", "i", "-">>
BisectorNightly ==
    <<"b", "i", "s", "e", "c", "t", "o", "r", "-", "n", "i", "g", "h", "t", "l", "y", "-">>
AltSuffix == <<"-", "a", "l", "t">>
Dash == <<"-">>
\* the two prefixes the guard of do_remove accepts (toolchains.rs:303)
GuardNightly ==
    <<"b", "i", "s", "e", "c", "t", "o", "r", "-", "n", "i", "g", "h", "t", "l", "y">>
GuardCi == <<"b", "i", "s", "e", "c", "t", "o", "r", "-", "c", "i">>

\* str::starts_with
starts_with(str, prefix) ==
    Len(prefix) <= Len(str) /\ SubSeq(str, 1, Len(prefix)) = prefix

\* a number in decimal, zero-padded to width digits (%Y, %m, %d)
Digit(n) == <<"0", "1", "2", "3", "4", "5", "6", "7", "8", "9">>[n + 1]
PaddedF[n \in Nat, width \in Nat] ==
    IF width = 0 THEN <<>> ELSE Append(PaddedF[n \div 10, width - 1], <<Digit(n % 10)>>[1])
Padded(n, width) == PaddedF[n, width]

\* date.format(YYYY_MM_DD) (toolchains.rs:29)
FormatDate(date) ==
    Padded(date.y, 4) \o Dash \o Padded(date.m, 2) \o Dash \o Padded(date.d, 2)

\* the mutant: the ci name is made without the bisector- prefix
rustup_name_bareCi(t) ==
    IF t.spec.kind = "Ci"
    THEN <<"c", "i", "-">> \o t.spec.commit
         \o (IF t.spec.alt THEN AltSuffix ELSE <<>>) \o Dash \o t.host
    ELSE BisectorNightly \o FormatDate(t.spec.date) \o Dash \o t.host

\* Toolchain::rustup_name (toolchains.rs:72-88)
rustup_name(t) ==
    IF t.spec.kind = "Ci"
    THEN BisectorCi \o t.spec.commit
         \o (IF t.spec.alt THEN AltSuffix ELSE <<>>) \o Dash \o t.host
    ELSE BisectorNightly \o FormatDate(t.spec.date) \o Dash \o t.host

\* Toolchain::is_current_nightly (toolchains.rs:116-126)
is_current_nightly(t) == t.spec.kind = "Nightly" /\ t.spec.date \in default_nightly

\* the toolchains of the model: commit shas, nightly dates, one host
Commits == {<<"7", "f">>}
Dates == {[y |-> 2020, m |-> 2, d |-> 6]}
Hosts == {<<"x", "8", "6">>}
Toolchains ==
    {[spec |-> [kind |-> "Ci", commit |-> c, alt |-> a], host |-> h] :
        c \in Commits, a \in BOOLEAN, h \in Hosts}
    \cup {[spec |-> [kind |-> "Nightly", date |-> d], host |-> h] :
            d \in Dates, h \in Hosts}

\* the user's own nightly toolchain, the target of the link that install makes
\* for the current nightly (toolchains.rs:151-171)
OwnNightly == <<"n", "i", "g", "h", "t", "l", "y", "-", "x", "8", "6">>

\* entries of the install root that the store did not make
ForeignDirs == {<<"s", "t", "a", "b", "l", "e", "-", "x", "8", "6">>,
                <<"b", "i", "s", "e", "c", "t", "o", "r">>,
                OwnNightly}

(* do_remove (toolchains.rs:298-310) as a record: panic (the guard failed),  *)
(* ok (remove_dir_all found the directory), and the install root after it.   *)
(* remove_dir_all on a symlink removes the link.                             *)
do_remove(t) ==
    IF ~(starts_with(rustup_name(t), GuardNightly) \/ starts_with(rustup_name(t), GuardCi))
    THEN [panic |-> TRUE, ok |-> FALSE, fs |-> fs, links |-> links]
    ELSE [panic |-> FALSE,
          ok    |-> rustup_name(t) \in fs,
          fs    |-> fs \ {rustup_name(t)},
          links |-> links \ {rustup_name(t)}]

\* the value of tc while no operation runs
NoToolchain == [spec |-> [kind |-> "None"], host |-> <<>>]

StoreIdle ==
    /\ fs = ForeignDirs
    /\ links = {}
    /\ scratch = 0
    /\ targets = {}
    /\ default_nightly = {}
    /\ store_cfg = [force_install |-> FALSE, preserve |-> FALSE, preserve_target |-> FALSE]
    /\ op = "none"
    /\ tc = NoToolchain
    /\ tmpdir = FALSE
    /\ dest_before = FALSE
    /\ ipc = "idle"
    /\ result = "None"

\* the program starts under some flags, with or without a default nightly
StoreStart ==
    /\ fs = ForeignDirs
    /\ links = {}
    /\ scratch = 0
    /\ targets = {}
    /\ default_nightly \in {{}} \cup {{d} : d \in Dates}
    /\ store_cfg \in [force_install : BOOLEAN, preserve : BOOLEAN, preserve_target : BOOLEAN]
    /\ op = "none"
    /\ tc = NoToolchain
    /\ tmpdir = FALSE
    /\ dest_before = FALSE
    /\ ipc = "idle"
    /\ result = "None"

\* an operation of kind o starts on toolchain t
Enter(o, t) ==
    /\ ipc = "idle"
    /\ op' = o
    /\ tc' = t
    /\ result' = "None"
    /\ dest_before' = (rustup_name(t) \in fs)
    /\ ipc' = o
    /\ UNCHANGED <<fs, links, scratch, targets, default_nightly, store_cfg, tmpdir>>
    /\ UNCHANGED outsideStore

CallInstall == \E t \in Toolchains : Enter("install", t)
CallRemove == \E t \in Toolchains : Enter("remove", t)
CallRemoveToolchain == \E t \in Toolchains : Enter("remove_toolchain", t)
CallRunTest == \E t \in Toolchains : Enter("test", t)

\* the operation is over
Returned ==
    /\ ipc = "done"
    /\ ipc' = "idle"
    /\ op' = "none"
    /\ tc' = NoToolchain
    /\ result' = "None"
    /\ dest_before' = FALSE
    /\ UNCHANGED <<fs, links, scratch, targets, default_nightly, store_cfg, tmpdir>>
    /\ UNCHANGED outsideStore

\* toolchains.rs:135-136: TempDir::new_in makes the scratch directory
MakeTempDir ==
    /\ ipc = "install"
    /\ scratch <= MaxScratch
    /\ scratch' = scratch + 1
    /\ tmpdir' = TRUE
    /\ ipc' = "force"
    /\ UNCHANGED <<fs, links, targets, default_nightly, store_cfg, op, tc,
                   dest_before, result>>
    /\ UNCHANGED outsideStore

\* toolchains.rs:135-136: TempDir::new_in fails
TempDirFails ==
    /\ ipc = "install"
    /\ result' = "TempDir"
    /\ ipc' = "done"
    /\ UNCHANGED <<fs, links, scratch, targets, default_nightly, store_cfg, op, tc,
                   tmpdir, dest_before>>
    /\ UNCHANGED outsideStore

\* rm is what do_remove answered; its error is dropped (let _ =)
Forced(rm) ==
    /\ ipc' = IF rm.panic THEN "panicked" ELSE "check"
    /\ fs' = rm.fs
    /\ links' = rm.links

\* toolchains.rs:137-140
ForceRemove ==
    /\ ipc = "force"
    /\ IF store_cfg.force_install
       THEN Forced(do_remove(tc))
       ELSE ipc' = "check" /\ UNCHANGED <<fs, links>>
    /\ UNCHANGED <<scratch, targets, default_nightly, store_cfg, op, tc,
                   tmpdir, dest_before, result>>
    /\ UNCHANGED outsideStore

\* install returns r; the TempDir it still holds is dropped, the scratch
\* directory with it
InstallReturns(res) ==
    /\ result' = res
    /\ ipc' = "done"
    /\ tmpdir' = FALSE
    /\ scratch' = IF tmpdir THEN scratch - 1 ELSE scratch

\* toolchains.rs:142-145
AlreadyInstalled ==
    /\ ipc = "check"
    /\ rustup_name(tc) \in fs
    /\ InstallReturns("Ok")
    /\ UNCHANGED <<fs, links, targets, default_nightly, store_cfg, op, tc, dest_before>>
    /\ UNCHANGED outsideStore

\* toolchains.rs:147-181: the current nightly is linked, or rustc or rustup fail
LinkNightly ==
    /\ ipc = "check"
    /\ rustup_name(tc) \notin fs
    /\ is_current_nightly(tc)
    /\ \E linked \in BOOLEAN :
          /\ InstallReturns(IF linked THEN "Ok" ELSE "Subcommand")
          /\ fs' = IF linked THEN fs \cup {rustup_name(tc)} ELSE fs
          /\ links' = IF linked THEN links \cup {rustup_name(tc)} ELSE links
    /\ UNCHANGED <<targets, default_nightly, store_cfg, op, tc, dest_before>>
    /\ UNCHANGED outsideStore

\* toolchains.rs:183-280: the components are downloaded into the scratch directory
Download ==
    /\ ipc = "check"
    /\ rustup_name(tc) \notin fs
    /\ ~is_current_nightly(tc)
    /\ ipc' = "rename"
    /\ UNCHANGED <<fs, links, scratch, targets, default_nightly, store_cfg, op, tc,
                   tmpdir, dest_before, result>>
    /\ UNCHANGED outsideStore

\* toolchains.rs:193-280: a download fails, with 404 for rustc or otherwise
DownloadFails ==
    /\ ipc = "check"
    /\ rustup_name(tc) \notin fs
    /\ ~is_current_nightly(tc)
    /\ \E e \in {"NotFound", "Download"} : InstallReturns(e)
    /\ UNCHANGED <<fs, links, targets, default_nightly, store_cfg, op, tc, dest_before>>
    /\ UNCHANGED outsideStore

\* toolchains.rs:282-284: the scratch directory becomes the target
Rename ==
    /\ ipc = "rename"
    /\ fs' = fs \cup {rustup_name(tc)}
    /\ InstallReturns("Ok")
    /\ UNCHANGED <<links, targets, default_nightly, store_cfg, op, tc, dest_before>>
    /\ UNCHANGED outsideStore

\* toolchains.rs:282: rename fails; into_path has given the TempDir up, the
\* scratch directory stays
RenameFails ==
    /\ ipc = "rename"
    /\ result' = "Move"
    /\ ipc' = "done"
    /\ tmpdir' = FALSE
    /\ UNCHANGED <<fs, links, scratch, targets, default_nightly, store_cfg, op, tc,
                   dest_before>>
    /\ UNCHANGED outsideStore

\* rm is what do_remove answered
Removed(rm) ==
    /\ ipc' = IF rm.panic THEN "panicked" ELSE "done"
    /\ result' = IF rm.panic THEN result ELSE IF rm.ok THEN "Ok" ELSE "Io"
    /\ fs' = rm.fs
    /\ links' = rm.links

\* Toolchain::remove (toolchains.rs:289-292)
Remove ==
    /\ ipc = "remove"
    /\ Removed(do_remove(tc))
    /\ UNCHANGED <<scratch, targets, default_nightly, store_cfg, op, tc,
                   tmpdir, dest_before>>
    /\ UNCHANGED outsideStore

\* the mutant: --preserve keeps a link too
keeps_toolchain_linkToo(t) == store_cfg.preserve

\* the mutant: the toolchain is kept whatever the flags
keeps_toolchain_always(t) == TRUE

\* main.rs:611-634: under --preserve the toolchain is left alone unless its
\* directory is a symlink or a junction; one that cannot be stat'ed is left too
keeps_toolchain(t) == store_cfg.preserve /\ rustup_name(t) \notin links

\* main.rs:611-634: under --preserve only a link is removed
RemoveToolchainKeeps ==
    /\ ipc = "remove_toolchain"
    /\ keeps_toolchain(tc)
    /\ ipc' = "done"
    /\ result' = "Ok"
    /\ UNCHANGED <<fs, links, scratch, targets, default_nightly, store_cfg, op, tc,
                   tmpdir, dest_before>>
    /\ UNCHANGED outsideStore

\* main.rs:635-646: toolchain.remove, its error logged
RemoveToolchain ==
    /\ ipc = "remove_toolchain"
    /\ ~keeps_toolchain(tc)
    /\ Removed(do_remove(tc))
    /\ UNCHANGED <<scratch, targets, default_nightly, store_cfg, op, tc,
                   tmpdir, dest_before>>
    /\ UNCHANGED outsideStore

\* run_test (toolchains.rs:312-320, 357): the target directory of the
\* toolchain is removed from test_dir unless --preserve-target, and the
\* build may make it
RunTestDirs ==
    /\ ipc = "test"
    /\ \E built \in BOOLEAN :
          targets' = (IF store_cfg.preserve_target THEN targets
                      ELSE targets \ {rustup_name(tc)})
                     \cup (IF built THEN {rustup_name(tc)} ELSE {})
    /\ ipc' = "done"
    /\ result' = "Ok"
    /\ UNCHANGED <<fs, links, scratch, default_nightly, store_cfg, op, tc,
                   tmpdir, dest_before>>
    /\ UNCHANGED outsideStore

(* install_and_test (main.rs:794-815) on the store: install, then the test   *)
(* and remove_toolchain, or remove_toolchain alone when install failed.      *)

\* the call goes on with operation o on the same toolchain
ProbeGoesOn(o) ==
    /\ ipc = "done"
    /\ op' = o
    /\ ipc' = o
    /\ result' = "None"
    /\ dest_before' = (rustup_name(tc) \in fs)
    /\ UNCHANGED <<fs, links, scratch, targets, default_nightly, store_cfg, tc, tmpdir>>
    /\ UNCHANGED outsideStore

\* main.rs:794-796: install returned Ok(()), the toolchain is tested
ProbeTest ==
    /\ op = "install" /\ result = "Ok"
    /\ ProbeGoesOn("test")

\* main.rs:807: remove_toolchain after the test
ProbeCleansUp ==
    /\ op = "test"
    /\ ProbeGoesOn("remove_toolchain")

\* main.rs:811-812: remove_toolchain after a failed install
ProbeCleansUpFailed ==
    /\ op = "install" /\ result # "Ok"
    /\ ProbeGoesOn("remove_toolchain")

\* main.rs:809, 813: install_and_test returns
ProbeReturns ==
    /\ op = "remove_toolchain"
    /\ Returned

-----------------------------------------------------------------------------
(* Config::bisect (main.rs:478-523) with bisect_nightlies (main.rs:831-956), *)
(* bisect_ci_via and bisect_ci_in_commits (main.rs:989-1115), print_results  *)
(* (main.rs:556-607) and install_and_test (main.rs:750-816).                 *)
(*                                                                           *)
(* A date is a day number counted from end_at (2015-10-20, main.rs:839).     *)
(* A commit is its position in the first-parent history of bors merges, the  *)
(* oldest being 1.  Day d - 1 holds CommitsPerDay merges and the nightly of  *)
(* day d is built from the last of them.                                     *)

\* the number of merge commits of day d - 1 is CommitsPerDay
NumCommits == MaxDay * CommitsPerDay

\* Commit.date (main.rs:1049, git.rs:24)
CommitDate(c) == (c - 1) \div CommitsPerDay

\* the nightlies that were published
NightlyDates == 1 .. MaxDay

\* the content of channel-rust-nightly-git-commit-hash.txt (bounds.rs:39-52)
NightlyCommit(d) == d * CommitsPerDay

\* ToolchainSpec::Nightly and ToolchainSpec::Ci (toolchains.rs:437-442)
Nightly(d) == [kind |-> "Nightly", date |-> d]
Ci(c, alt) == [kind |-> "Ci", commit |-> c, alt |-> alt]

\* no toolchain fails to install
NoBroken == [kind |-> "None"]

\* the one toolchain that fails to install, and the InstallError it fails with
Broken ==
    {NoBroken}
    \cup {[kind |-> "Nightly", date |-> d, err |-> e] :
            d \in NightlyDates, e \in {"NotFound", "Download"}}
    \cup {[kind |-> "Ci", commit |-> c, err |-> e] :
            c \in 1 .. NumCommits, e \in {"NotFound", "Download"}}

\* today() (main.rs:209-211): every commit is young, the commits of the first
\* day are too old, every commit is too old
Todays == {MaxDay, RetentionDays, RetentionDays + MaxDay}

(* What a run meets: the policy --regress, --alt, the injection commit (the  *)
(* first commit that shows the regression; NumCommits + 1: none does), the   *)
(* day the run is made, the toolchain that cannot be installed, and the      *)
(* days whose nightly was never published (none here, see WalkWorlds).  A    *)
(* broken toolchain and --alt are met under the default policy and while    *)
(* every commit is young only, and not together.                             *)
Worlds ==
    {w \in [regress : RegressOn, alt : BOOLEAN, inj : 1 .. NumCommits + 1,
            today : Todays, broken : Broken, missing : {{}}] :
        /\ (w.broken # NoBroken \/ w.alt) => (w.regress = Error /\ w.today = MaxDay)
        /\ w.alt => w.broken = NoBroken}

\* Bounds (bounds.rs:58-66) as Bounds::from_args leaves them: end < start is
\* rejected (bounds.rs:131-134); two commit bounds are commits of nightlies
BoundsChoices ==
    {[kind |-> "Dates", start |-> a, end |-> b] :
        a \in NightlyDates, b \in NightlyDates}
    \cup {[kind |-> "SearchNightlyBackwards", start |-> b, end |-> b] :
        b \in NightlyDates}
    \cup {[kind |-> "Commits", start |-> NightlyCommit(a), end |-> NightlyCommit(b)] :
        a \in NightlyDates, b \in NightlyDates}

\* the bounds a run starts from
ValidBounds == {b \in BoundsChoices : b.start <= b.end}

(* What a run of the nightly phase meets when nightlies are missing: the     *)
(* days 1 .. MaxWalkDay, any of them without a published nightly, at most    *)
(* one nightly whose download fails, under the default policy.  The          *)
(* nightlies after MaxDay all show the regression.                           *)
WalkDays == 1 .. MaxWalkDay

WalkWorlds ==
    {w \in [regress : {Error}, alt : {FALSE}, inj : 1 .. NumCommits + 1,
            today : {MaxDay}, missing : SUBSET WalkDays,
            broken : {NoBroken}
                     \cup {[kind |-> "Nightly", date |-> d, err |-> "Download"] :
                             d \in NightlyDates}] :
        w.broken # NoBroken => w.broken.date \notin w.missing}

\* date bounds as Bounds::from_args leaves them (bounds.rs:131-134)
WalkBounds ==
    {[kind |-> "Dates", start |-> a, end |-> b] : a \in WalkDays, b \in WalkDays}
    \cup {[kind |-> "SearchNightlyBackwards", start |-> b, end |-> b] : b \in WalkDays}

ValidWalkBounds == {b \in WalkBounds : b.start <= b.end}

\* the toolchain shows the regression: it is built from the injection commit
\* or a later one
Shows(t) ==
    IF t.kind = "Nightly" THEN NightlyCommit(t.date) >= world.inj
    ELSE t.commit >= world.inj

\* what Toolchain::install returns for the toolchain (toolchains.rs:128-287)
InstallOf(t) ==
    IF t.kind = "Nightly" /\ t.date \in world.missing
    THEN "NotFound"
    ELSE IF world.broken.kind = "Nightly" /\ t.kind = "Nightly" /\ world.broken.date = t.date
    THEN world.broken.err
    ELSE IF world.broken.kind = "Ci" /\ t.kind = "Ci" /\ world.broken.commit = t.commit
    THEN world.broken.err
    ELSE "Ok"

\* the process::Output of the test command under a toolchain that shows the
\* regression (shows) or does not, as the policy understands a regression
OutputOf(regress, shows) ==
    CASE regress = Error ->
           IF shows THEN [code |-> 1, stderr |-> {OtherLine}]
           ELSE [code |-> 0, stderr |-> {}]
      [] regress = Success ->
           IF shows THEN [code |-> 0, stderr |-> {}]
           ELSE [code |-> 1, stderr |-> {OtherLine}]
      [] regress = Ice ->
           IF shows THEN [code |-> 101, stderr |-> {IceMarker}]
           ELSE [code |-> 1, stderr |-> {OtherLine}]
      [] regress = NonIce ->
           IF shows THEN [code |-> 1, stderr |-> {OtherLine}]
           ELSE [code |-> 101, stderr |-> {IceMarker}]
      [] regress = NonError ->
           IF shows THEN [code |-> 0, stderr |-> {}]
           ELSE [code |-> 1, stderr |-> {OtherLine}]

\* Toolchain::test without --prompt (toolchains.rs:430-432), read as Satisfies
\* (main.rs:798-801)
TestOf(t) ==
    IF default_outcome_of_output(world.regress, OutputOf(world.regress, Shows(t)))
         = Regressed
    THEN Yes ELSE No

\* Config::install_and_test (main.rs:794-815): Ok(r) or Err(error)
install_and_test(t) ==
    IF InstallOf(t) = "Ok"
    THEN [ok |-> TRUE, r |-> TestOf(t), err |-> "None"]
    ELSE [ok |-> FALSE, r |-> Unknown, err |-> InstallOf(t)]

\* the predicate of bisect_to_regression (main.rs:819-825) on every toolchain
\* of the slice: install_and_test(t).unwrap_or(Satisfies::Unknown)
Verdicts(ts) ==
    [i \in 1 .. Len(ts) |->
        IF install_and_test(ts[i]).ok THEN install_and_test(ts[i]).r ELSE Unknown]

\* NaiveDate::pred_opt().unwrap() (main.rs:490, 501, 907)
\* the mutant: the day itself
pred_opt_sameDay(date) == date

pred_opt(date) == date - 1

\* NightlyFinderIter::next (main.rs:730-746)
\* the mutant: the weekly jumps go on after the seventh week
NightlyFinderNext_weekly(it) ==
    [it EXCEPT !.current_date = @ - (IF it.start_date - it.current_date < 7 THEN 2 ELSE 7)]

NightlyFinderNext(it) ==
    LET current_distance == it.start_date - it.current_date
        jump_length == IF current_distance < 7 THEN 2
                       ELSE IF current_distance < 49 THEN 7
                       ELSE 14
    IN  [it EXCEPT !.current_date = @ - jump_length]

\* toolchains_between (main.rs:959-980): the nightlies a ..= b
toolchains_between(a, b) == [i \in 1 .. (IF a <= b THEN b - a + 1 ELSE 0) |-> Nightly(a + i - 1)]

\* Bound::Date(date).sha() (bounds.rs:35-54): the commit, or the DownloadError
\* of a nightly that was never published
ManifestOf(d) ==
    IF d \notin NightlyDates \/ d \in world.missing
         \/ (world.broken.kind = "Nightly" /\ world.broken.date = d
             /\ world.broken.err = "NotFound")
    THEN [ok |-> FALSE, sha |-> 0]
    ELSE [ok |-> TRUE, sha |-> NightlyCommit(d)]

\* git::get_commits_between (git.rs:139-208): from last along the first
\* parents down to first, both ends included, oldest first; the walk reaches
\* the end of the repository when first is not an ancestor of last
get_commits_between(first, last) ==
    IF first < last
    THEN [ok |-> TRUE, commits |-> [i \in 1 .. last - first + 1 |-> first + i - 1]]
    ELSE [ok |-> FALSE, commits |-> <<>>]

\* the mutant: a commit of exactly 167 days is kept too
Retain_upTo(commits) ==
    SelectSeq(commits, LAMBDA c : world.today - CommitDate(c) <= RetentionDays)

\* commits.retain(|c| today() - c.date < Duration::days(167)) (main.rs:1049)
Retain(commits) ==
    SelectSeq(commits, LAMBDA c : world.today - CommitDate(c) < RetentionDays)

\* nothing has been called yet
BisectIdle ==
    /\ world = [regress |-> Error, alt |-> FALSE, inj |-> 1, today |-> MaxDay,
                broken |-> NoBroken, missing |-> {}]
    /\ bounds = [kind |-> "None", start |-> 0, end |-> 0]
    /\ nightly_date = 0 /\ last_failure = 0 /\ first_success = {}
    /\ nightly_iter = [start_date |-> 0, current_date |-> 0]
    /\ toolchains = <<>>
    /\ nightly_result = [searched |-> <<>>, found |-> 0]
    /\ ci_result = [searched |-> <<>>, found |-> 0]
    /\ previous_date = 0 /\ working_commit = 0 /\ bad_commit = 0
    /\ printed = <<>> /\ evaluated = <<>>
    /\ berr = [msg |-> "None", at |-> <<>>] /\ bpc = "idle"

\* bail!(..) or the ? operator: bisect returns the error
Fail(msg) == bpc' = "failed" /\ berr' = [msg |-> msg, at |-> <<>>]

\* bail!("... ({}) ...", t): the message names the toolchain
FailAt(msg, t) == bpc' = "failed" /\ berr' = [msg |-> msg, at |-> <<t>>]

nightlyLocals == <<nightly_date, last_failure, first_success, nightly_iter>>
commitLocals == <<previous_date, working_commit, bad_commit>>

\* run (main.rs:398-417) calls cfg.bisect() under some bounds
CallBisect ==
    /\ bpc = "idle"
    /\ spc = "idle"
    /\ \E w \in Worlds, b \in ValidBounds : world' = w /\ bounds' = b
    /\ bpc' = "bisect"
    /\ UNCHANGED <<nightlyLocals, commitLocals, toolchains, nightly_result, ci_result,
                   printed, berr>>
    /\ UNCHANGED evaluated
    /\ UNCHANGED <<searchVars, outsideBisect>>

\* run (main.rs:398-417) calls cfg.bisect() under date bounds, some nightlies
\* missing
CallWalk ==
    /\ bpc = "idle"
    /\ spc = "idle"
    /\ \E w \in WalkWorlds, b \in ValidWalkBounds : world' = w /\ bounds' = b
    /\ bpc' = "bisect"
    /\ UNCHANGED <<nightlyLocals, commitLocals, toolchains, nightly_result, ci_result,
                   printed, berr>>
    /\ UNCHANGED evaluated
    /\ UNCHANGED <<searchVars, outsideBisect>>

\* main.rs:479-480, 984-987: bisect_ci on the two commit bounds
BisectCommits ==
    /\ bpc = "bisect"
    /\ bounds.kind = "Commits"
    /\ working_commit' = bounds.start
    /\ bad_commit' = bounds.end
    /\ bpc' = "ci_via"
    /\ UNCHANGED <<world, bounds, nightlyLocals, previous_date, toolchains,
                   nightly_result, ci_result, printed, berr>>
    /\ UNCHANGED evaluated
    /\ UNCHANGED <<searchVars, outsideBisect>>

\* main.rs:484, 832-860: bisect_nightlies up to its loop
BisectNightlies ==
    /\ bpc = "bisect"
    /\ bounds.kind # "Commits"
    /\ IF world.alt
       THEN Fail("cannot bisect nightlies with --alt") /\ UNCHANGED nightlyLocals
       ELSE /\ nightly_date' = IF bounds.kind = "Dates" THEN bounds.start ELSE bounds.end
            /\ last_failure' = bounds.end
            /\ first_success' = {}
            /\ nightly_iter' = [start_date |-> nightly_date', current_date |-> nightly_date']
            /\ bpc' = "nightly_loop"
            /\ UNCHANGED berr
    /\ UNCHANGED <<world, bounds, commitLocals, toolchains, nightly_result, ci_result,
                   printed>>
    /\ evaluated' = <<>>
    /\ UNCHANGED <<searchVars, outsideBisect>>

\* args.start.is_some() (main.rs:858): date bounds come from --start
\* the mutant: the start is never taken as given
has_start_never == FALSE

has_start == bounds.kind = "Dates"

\* the verdict on the end of a range that ends the phase (main.rs:933, 1100)
\* the mutant: no verdict does
end_rejected_never(verdict) == FALSE

end_rejected(verdict) == verdict = No

\* the day before which no nightly is tested (main.rs:839)
end_at == 0

\* install_and_test (main.rs:750-816) tests the toolchain it could install
tested(t) == IF install_and_test(t).ok THEN <<t>> ELSE <<>>

\* the toolchains the predicate of bisect_to_regression (main.rs:819-825)
\* installed and tested during the search, as often as it was called on them
RECURSIVE searched_tests(_, _)
searched_tests(ts, k) ==
    IF ts = <<>> THEN <<>>
    ELSE searched_tests(SubSeq(ts, 1, Len(ts) - 1), k)
         \o (IF k[Len(ts) - 1] > 0 THEN tested(ts[Len(ts)]) ELSE <<>>)

\* main.rs:567-574: print_results installs and tests the toolchain found
\* once more when it is the last one searched
checks_last(res) == res.searched[res.found + 1] = res.searched[Len(res.searched)]

checked_again(res) ==
    IF checks_last(res) THEN tested(res.searched[res.found + 1]) ELSE <<>>

\* main.rs:868-892: the nightly under test does not show the regression
NightlyPasses ==
    /\ bpc = "nightly_loop"
    /\ nightly_date > end_at
    /\ install_and_test(Nightly(nightly_date)).ok
    /\ install_and_test(Nightly(nightly_date)).r = No
    /\ first_success' = {nightly_date}
    /\ bpc' = "verify_end"
    /\ UNCHANGED <<world, bounds, nightly_date, last_failure, nightly_iter, commitLocals,
                   toolchains, nightly_result, ci_result, printed, berr>>
    /\ evaluated' = Append(evaluated, Nightly(nightly_date))
    /\ UNCHANGED <<searchVars, outsideBisect>>

\* main.rs:893-903: it shows the regression
NightlyRegressed ==
    /\ bpc = "nightly_loop"
    /\ nightly_date > end_at
    /\ install_and_test(Nightly(nightly_date)).ok
    /\ install_and_test(Nightly(nightly_date)).r # No
    /\ IF has_start
       THEN /\ FailAt("the start of the range must not reproduce the regression",
                      Nightly(nightly_date))
            /\ UNCHANGED <<nightly_date, last_failure, nightly_iter>>
       ELSE /\ last_failure' = nightly_date
            /\ nightly_iter' = NightlyFinderNext(nightly_iter)
            /\ nightly_date' = nightly_iter'.current_date
            /\ UNCHANGED <<bpc, berr>>
    /\ UNCHANGED <<world, bounds, first_success, commitLocals, toolchains,
                   nightly_result, ci_result, printed>>
    /\ evaluated' = Append(evaluated, Nightly(nightly_date))
    /\ UNCHANGED <<searchVars, outsideBisect>>

\* main.rs:905-915: it is missing, go back one day
NightlyNotFound ==
    /\ bpc = "nightly_loop"
    /\ nightly_date > end_at
    /\ install_and_test(Nightly(nightly_date)).err = "NotFound"
    /\ nightly_date' = pred_opt(nightly_date)
    /\ IF has_start
       THEN FailAt("could not find", Nightly(nightly_date))
       ELSE UNCHANGED <<bpc, berr>>
    /\ UNCHANGED <<world, bounds, last_failure, first_success, nightly_iter, commitLocals,
                   toolchains, nightly_result, ci_result, printed>>
    /\ UNCHANGED evaluated
    /\ UNCHANGED <<searchVars, outsideBisect>>

\* main.rs:916: any other install error ends the run
NightlyInstallError ==
    /\ bpc = "nightly_loop"
    /\ nightly_date > end_at
    /\ ~install_and_test(Nightly(nightly_date)).ok
    /\ install_and_test(Nightly(nightly_date)).err # "NotFound"
    /\ Fail(install_and_test(Nightly(nightly_date)).err)
    /\ UNCHANGED <<world, bounds, nightlyLocals, commitLocals, toolchains,
                   nightly_result, ci_result, printed>>
    /\ UNCHANGED evaluated
    /\ UNCHANGED <<searchVars, outsideBisect>>

\* main.rs:868, 920: the loop ran out of dates without a passing nightly
NoPassingNightly ==
    /\ bpc = "nightly_loop"
    /\ nightly_date <= end_at
    /\ Fail("could not find a nightly that built")
    /\ UNCHANGED <<world, bounds, nightlyLocals, commitLocals, toolchains,
                   nightly_result, ci_result, printed>>
    /\ UNCHANGED evaluated
    /\ UNCHANGED <<searchVars, outsideBisect>>

\* main.rs:922-939: the end of the range must not pass
VerifyEnd ==
    /\ bpc = "verify_end"
    /\ LET x == install_and_test(Nightly(last_failure))
       IN  IF ~x.ok THEN Fail(x.err)
           ELSE IF end_rejected(x.r)
           THEN FailAt("the end of the range does not reproduce the regression",
                       Nightly(last_failure))
           ELSE bpc' = "nightly_bisect" /\ UNCHANGED berr
    /\ UNCHANGED <<world, bounds, nightlyLocals, commitLocals, toolchains,
                   nightly_result, ci_result, printed>>
    /\ evaluated' = evaluated \o tested(Nightly(last_failure))
    /\ UNCHANGED <<searchVars, outsideBisect>>

\* main.rs:941-949: the nightlies from first_success to last_failure go to
\* bisect_to_regression; so is the start_offset least_satisfying is given
NightlyBisect ==
    /\ bpc = "nightly_bisect"
    /\ toolchains' = toolchains_between(CHOOSE d \in first_success : TRUE, last_failure)
    /\ \E so \in 0 .. MaxOffset : SearchEntry(Verdicts(toolchains'), so)
    /\ bpc' = "nightly_search"
    /\ UNCHANGED <<world, bounds, nightlyLocals, commitLocals, nightly_result, ci_result,
                   printed, berr>>
    /\ UNCHANGED evaluated
    /\ UNCHANGED <<mid_args, mid_out, outsideBisect>>

\* main.rs:949-955: least_satisfying returned the index found
NightlySearched ==
    /\ bpc = "nightly_search"
    /\ spc = "returned"
    /\ nightly_result' = [searched |-> toolchains, found |-> ret]
    /\ spc' = "idle"
    /\ bpc' = "print_nightly"
    /\ UNCHANGED <<world, bounds, nightlyLocals, commitLocals, toolchains, ci_result,
                   printed, berr>>
    /\ evaluated' = evaluated \o searched_tests(toolchains, calls)
    /\ UNCHANGED <<slice, start_offset, searchLocals, mid_args, mid_out, outsideBisect>>

\* print_results (main.rs:556-607): the line it ends with.  When the toolchain
\* found is the last one searched it is installed and tested once more.
ResultLine(res) ==
    LET t == res.searched[res.found + 1]
        x == install_and_test(t)
        again == IF x.ok THEN x.r ELSE Unknown
    IN  IF checks_last(res) /\ again # Yes
        THEN [kind |-> "NotFound", tc |-> t]
        ELSE [kind |-> "Regression", tc |-> t]

\* main.rs:485: print_results(&nightly_bisection_result)
PrintNightly ==
    /\ bpc = "print_nightly"
    /\ printed' = Append(printed, ResultLine(nightly_result))
    /\ bpc' = "commit_range"
    /\ UNCHANGED <<world, bounds, nightlyLocals, commitLocals, toolchains, nightly_result,
                   ci_result, berr>>
    /\ evaluated' = evaluated \o checked_again(nightly_result)
    /\ UNCHANGED <<searchVars, outsideBisect>>

\* main.rs:486-490: the day before the regressing nightly
CommitRange ==
    /\ bpc = "commit_range"
    /\ previous_date' = pred_opt(nightly_result.searched[nightly_result.found + 1].date)
    /\ bpc' = "working_commit"
    /\ UNCHANGED <<world, bounds, nightlyLocals, working_commit, bad_commit, toolchains,
                   nightly_result, ci_result, printed, berr>>
    /\ UNCHANGED evaluated
    /\ UNCHANGED <<searchVars, outsideBisect>>

\* main.rs:491-505: the commit of previous_date, one day earlier while the
\* nightly is missing
WorkingCommit ==
    /\ bpc = "working_commit"
    /\ IF ManifestOf(previous_date).ok
       THEN /\ working_commit' = ManifestOf(previous_date).sha
            /\ bpc' = "bad_commit"
            /\ UNCHANGED previous_date
       ELSE /\ previous_date' = pred_opt(previous_date)
            /\ UNCHANGED <<working_commit, bpc>>
    /\ UNCHANGED <<world, bounds, nightlyLocals, bad_commit, toolchains,
                   nightly_result, ci_result, printed, berr>>
    /\ UNCHANGED evaluated
    /\ UNCHANGED <<searchVars, outsideBisect>>

\* main.rs:507: the commit of the regressing nightly
BadCommit ==
    /\ bpc = "bad_commit"
    /\ LET m == ManifestOf(nightly_result.searched[nightly_result.found + 1].date)
       IN  IF m.ok
           THEN bad_commit' = m.sha /\ bpc' = "ci_via" /\ UNCHANGED berr
           ELSE Fail("NotFound") /\ UNCHANGED bad_commit
    /\ UNCHANGED <<world, bounds, nightlyLocals, previous_date, working_commit, toolchains,
                   nightly_result, ci_result, printed>>
    /\ UNCHANGED evaluated
    /\ UNCHANGED <<searchVars, outsideBisect>>

\* bisect_ci_via (main.rs:989-1040) and bisect_ci_in_commits up to the
\* toolchains (main.rs:1042-1083).  Every commit of the history is a bors
\* merge and the dates of the history are in order, so the checks of
\* main.rs:1005-1028 pass.
BisectCiVia ==
    /\ bpc = "ci_via"
    /\ LET got == get_commits_between(working_commit, bad_commit)
           commits == Retain(got.commits)
       IN  IF ~got.ok
           THEN Fail("reached end of repo without encountering the first commit")
                /\ UNCHANGED toolchains
           ELSE IF commits = <<>>
           THEN Fail("no CI builds available within last 167 days")
                /\ UNCHANGED toolchains
           ELSE IF commits[Len(commits)] # bad_commit
           THEN Fail("expected to end with the end commit") /\ UNCHANGED toolchains
           ELSE /\ toolchains' = [i \in 1 .. Len(commits) |-> Ci(commits[i], world.alt)]
                /\ bpc' = "ci_verify_start"
                /\ UNCHANGED berr
    /\ UNCHANGED <<world, bounds, nightlyLocals, commitLocals, nightly_result, ci_result,
                   printed>>
    /\ evaluated' = <<>>
    /\ UNCHANGED <<searchVars, outsideBisect>>

\* main.rs:1085-1094: the commit at the start of the range must not regress
CiVerifyStart ==
    /\ bpc = "ci_verify_start"
    /\ LET x == install_and_test(toolchains[1])
       IN  IF ~x.ok THEN Fail(x.err)
           ELSE IF x.r = Yes
           THEN FailAt("the commit at the start of the range includes the regression",
                       toolchains[1])
           ELSE bpc' = "ci_verify_end" /\ UNCHANGED berr
    /\ UNCHANGED <<world, bounds, nightlyLocals, commitLocals, toolchains, nightly_result,
                   ci_result, printed>>
    /\ evaluated' = evaluated \o tested(toolchains[1])
    /\ UNCHANGED <<searchVars, outsideBisect>>

\* main.rs:1096-1105: the commit at the end of the range must regress
CiVerifyEnd ==
    /\ bpc = "ci_verify_end"
    /\ LET x == install_and_test(toolchains[Len(toolchains)])
       IN  IF ~x.ok THEN Fail(x.err)
           ELSE IF end_rejected(x.r)
           THEN FailAt("the commit at the end of the range does not reproduce the regression",
                       toolchains[Len(toolchains)])
           ELSE bpc' = "ci_bisect" /\ UNCHANGED berr
    /\ UNCHANGED <<world, bounds, nightlyLocals, commitLocals, toolchains, nightly_result,
                   ci_result, printed>>
    /\ evaluated' = evaluated \o tested(toolchains[Len(toolchains)])
    /\ UNCHANGED <<searchVars, outsideBisect>>

\* main.rs:1108: the commits go to bisect_to_regression
CiBisect ==
    /\ bpc = "ci_bisect"
    /\ \E so \in 0 .. MaxOffset : SearchEntry(Verdicts(toolchains), so)
    /\ bpc' = "ci_search"
    /\ UNCHANGED <<world, bounds, nightlyLocals, commitLocals, toolchains, nightly_result,
                   ci_result, printed, berr>>
    /\ UNCHANGED evaluated
    /\ UNCHANGED <<mid_args, mid_out, outsideBisect>>

\* main.rs:1108-1114: least_satisfying returned the index found
CiSearched ==
    /\ bpc = "ci_search"
    /\ spc = "returned"
    /\ ci_result' = [searched |-> toolchains, found |-> ret]
    /\ spc' = "idle"
    /\ bpc' = "print_ci"
    /\ UNCHANGED <<world, bounds, nightlyLocals, commitLocals, toolchains, nightly_result,
                   printed, berr>>
    /\ evaluated' = evaluated \o searched_tests(toolchains, calls)
    /\ UNCHANGED <<slice, start_offset, searchLocals, mid_args, mid_out, outsideBisect>>

\* main.rs:481, 516: print_results(&ci_bisection_result)
PrintCi ==
    /\ bpc = "print_ci"
    /\ printed' = Append(printed, ResultLine(ci_result))
    /\ bpc' = "perf"
    /\ UNCHANGED <<world, bounds, nightlyLocals, commitLocals, toolchains, nightly_result,
                   ci_result, berr>>
    /\ evaluated' = evaluated \o checked_again(ci_result)
    /\ UNCHANGED <<searchVars, outsideBisect>>

\* do_perf_search (main.rs:453-475): the commit found is a rollup whose perf
\* builds name a pull request, or the search of the perf builds fails
DoPerfSearch ==
    /\ bpc = "perf"
    /\ \E line \in {"PerfRegression", "PerfError"} :
          printed' = Append(printed, [kind |-> line,
                                      tc |-> ci_result.searched[ci_result.found + 1]])
    /\ bpc' = IF bounds.kind = "Commits" THEN "done" ELSE "final_report"
    /\ UNCHANGED <<world, bounds, nightlyLocals, commitLocals, toolchains, nightly_result,
                   ci_result, berr>>
    /\ UNCHANGED evaluated
    /\ UNCHANGED <<searchVars, outsideBisect>>

\* print_final_report (main.rs:518, 649-711)
PrintFinalReport ==
    /\ bpc = "final_report"
    /\ printed' = Append(printed, [kind |-> "FinalReport",
                                   tc |-> ci_result.searched[ci_result.found + 1]])
    /\ bpc' = "done"
    /\ UNCHANGED <<world, bounds, nightlyLocals, commitLocals, toolchains, nightly_result,
                   ci_result, berr>>
    /\ UNCHANGED evaluated
    /\ UNCHANGED <<searchVars, outsideBisect>>

-----------------------------------------------------------------------------
(* The downloads of Toolchain::install (toolchains.rs:183-286) with          *)
(* download_tarball, download_tar_xz, download_tar_gz and download_progress  *)
(* (toolchains.rs:517-612).  A URL is [comp, ext]: the component's tarball   *)
(* "<prefix>/<location>/<comp>.tar" with ".xz" or ".gz" appended.            *)

\* the components install may ask for, rust-std once per std target
ComponentNames ==
    {"rustc", "rust-std-host", "rust-std-target", "cargo", "rust-src", "rustc-dev",
     "llvm-tools"}

\* what a request can meet: the tarball, 404, another HTTP error status, a
\* request that cannot be sent, a body that is no archive of the format
Responses == {"200", "404", "500", "transport", "corrupt"}

Urls == [comp : ComponentNames, ext : {"xz", "gz"}]

\* download_progress (toolchains.rs:517-544) and the unarchive that follows
\* it in download_tar_xz / download_tar_gz (toolchains.rs:546-572): the
\* DownloadError met, "Ok" if none
download_tar(response) ==
    CASE response = "transport" -> "Reqwest"
      [] response = "404"       -> "NotFound"
      [] response = "500"       -> "Reqwest"
      [] response = "corrupt"   -> "Archive"
      [] OTHER                  -> "Ok"

\* download_tarball (toolchains.rs:606-610): the errors of the .xz attempt
\* after which the .gz URL is requested
\* the mutant: every error of the .xz attempt falls back to .gz
falls_back_anyError(error) == error # "Ok"

falls_back(error) == error = "NotFound"

\* the std targets after sort and dedup (main.rs:430-433): the host alone, or
\* the host and another target
StdTargets == {<<"rust-std-host">>, <<"rust-std-host", "rust-std-target">>}

\* the tarballs install downloads, in its order (toolchains.rs:192-280)
ComponentsOf(params, std_targets) ==
    <<"rustc">> \o std_targets
    \o (IF params.without_cargo THEN <<>> ELSE <<"cargo">>)
    \o (IF params.install_src THEN <<"rust-src">> ELSE <<>>)
    \o (IF params.install_dev THEN <<"rustc-dev", "llvm-tools">> ELSE <<>>)

\* how install reports the DownloadError of a component (toolchains.rs:204-214
\* for rustc, map_err(InstallError::Download) for the others)
\* the mutant: NotFound is typed for every component
install_error_typedForAll(comp, error, url) ==
    IF error = "NotFound"
    THEN [kind |-> "NotFound", cause |-> "NotFound", url |-> url]
    ELSE [kind |-> "Download", cause |-> error, url |-> url]

install_error(comp, error, url) ==
    IF comp = "rustc" /\ error = "NotFound"
    THEN [kind |-> "NotFound", cause |-> "NotFound", url |-> url]
    ELSE [kind |-> "Download", cause |-> error, url |-> url]

NoUrl == [comp |-> "none", ext |-> "none"]
NoResult == [kind |-> "None", cause |-> "None", url |-> NoUrl]

\* nothing has been called yet
DownloadIdle ==
    /\ server = [u \in Urls |-> "200"]
    /\ dl_params = [without_cargo |-> FALSE, install_src |-> FALSE, install_dev |-> FALSE]
    /\ components = <<>>
    /\ requests = <<>>
    /\ dl_result = NoResult
    /\ dpc = "idle"

\* the servers install may meet: the tarballs of one component are at fault
Servers ==
    {[u \in Urls |-> IF u.comp = c THEN (IF u.ext = "xz" THEN x ELSE g) ELSE "200"] :
        c \in ComponentNames, x \in Responses, g \in Responses}

\* install reaches its downloads (toolchains.rs:183-190)
CallDownloads ==
    /\ dpc = "idle"
    /\ \E s \in Servers,
          p \in [without_cargo : BOOLEAN, install_src : BOOLEAN, install_dev : BOOLEAN],
          t \in StdTargets :
          /\ server' = s
          /\ dl_params' = p
          /\ components' = ComponentsOf(p, t)
    /\ requests' = <<>>
    /\ dl_result' = NoResult
    /\ dpc' = "xz"
    /\ UNCHANGED outsideDownload

\* download_tarball asks for the .xz URL (toolchains.rs:606)
RequestXz ==
    /\ dpc = "xz"
    /\ LET url == [comp |-> Head(components), ext |-> "xz"]
           error == download_tar(server[url])
       IN  /\ requests' = Append(requests, url)
           /\ IF error = "Ok"
              THEN /\ components' = Tail(components)
                   /\ dpc' = IF Tail(components) = <<>> THEN "rename" ELSE "xz"
                   /\ UNCHANGED dl_result
              ELSE IF falls_back(error)
              THEN dpc' = "gz" /\ UNCHANGED <<components, dl_result>>
              ELSE /\ dl_result' = install_error(Head(components), error, url)
                   /\ dpc' = "done"
                   /\ UNCHANGED components
    /\ UNCHANGED <<server, dl_params>>
    /\ UNCHANGED outsideDownload

\* download_tarball asks for the .gz URL (toolchains.rs:611)
RequestGz ==
    /\ dpc = "gz"
    /\ LET url == [comp |-> Head(components), ext |-> "gz"]
           error == download_tar(server[url])
       IN  /\ requests' = Append(requests, url)
           /\ IF error = "Ok"
              THEN /\ components' = Tail(components)
                   /\ dpc' = IF Tail(components) = <<>> THEN "rename" ELSE "xz"
                   /\ UNCHANGED dl_result
              ELSE /\ dl_result' = install_error(Head(components), error, url)
                   /\ dpc' = "done"
                   /\ UNCHANGED components
    /\ UNCHANGED <<server, dl_params>>
    /\ UNCHANGED outsideDownload

\* fs::rename of the scratch directory (toolchains.rs:282-284)
RenameDownloads ==
    /\ dpc = "rename"
    /\ \E moved \in BOOLEAN :
          dl_result' = IF moved THEN [NoResult EXCEPT !.kind = "Ok"]
                       ELSE [NoResult EXCEPT !.kind = "Move"]
    /\ dpc' = "done"
    /\ UNCHANGED <<server, dl_params, components, requests>>
    /\ UNCHANGED outsideDownload

\* install has returned
DownloadsReturned ==
    /\ dpc = "done"
    /\ server' = [u \in Urls |-> "200"]
    /\ dl_params' = [without_cargo |-> FALSE, install_src |-> FALSE, install_dev |-> FALSE]
    /\ components' = <<>>
    /\ requests' = <<>>
    /\ dl_result' = NoResult
    /\ dpc' = "idle"
    /\ UNCHANGED outsideDownload

-----------------------------------------------------------------------------
(* Bounds::from_args (bounds.rs:68-146) with translate_tags                  *)
(* (bounds.rs:150-182), installed_nightly_or_latest and find_latest_nightly  *)
(* (bounds.rs:204-225).  Dates are day numbers; a commit identifier is the   *)
(* sequence of its characters.                                               *)

\* Option<Bound> (bounds.rs:16-20): None, Some(Date(d)), Some(Commit(c))
NoBound == [kind |-> "None"]
DateBound(d) == [kind |-> "Date", date |-> d]
CommitBound(c) == [kind |-> "Commit", commit |-> c]

\* commit identifiers a user gives: shas and release tags
Shas == {<<"a", "b", "c">>, <<"f", "e", "e", "d">>}
Tags == {<<"1", ".", "6", "2">>, <<"1", ".", "7", "0">>}
CommitNames == Shas \cup Tags

\* the dates a user gives: up to the day after the latest day a run is made
BoundDates == 1 .. MaxDay + 1

ArgBounds ==
    {NoBound} \cup {DateBound(d) : d \in BoundDates}
              \cup {CommitBound(c) : c \in CommitNames}

\* str::contains(char)
contains(str, ch) == \E i \in 1 .. Len(str) : str[i] = ch

\* "origin/master" (bounds.rs:93) and EPOCH_COMMIT (main.rs:62)
OriginMaster == <<"o", "r", "i", "g", "i", "n", "/", "m", "a", "s", "t", "e", "r">>
EPOCH_COMMIT ==
    <<"9", "2", "7", "c", "5", "5", "d", "8", "6", "b", "0", "b", "e", "4", "4", "3", "3",
      "7", "f", "3", "7", "c", "f", "5", "b", "0", "a", "7", "6", "f", "b", "8", "b", "a",
      "8", "6", "e", "0", "6", "c">>

\* the closure is_tag of translate_tags (bounds.rs:151-156)
is_tag(bound) == bound.kind = "Commit" /\ contains(bound.commit, ".")

\* the closure is_datelike of translate_tags (bounds.rs:157-159)
\* the mutant: every bound is date-like
is_datelike_always(bound) == TRUE

is_datelike(bound) == bound.kind \in {"None", "Date"} \/ is_tag(bound)

\* RustRepositoryAccessor::bound_to_date on a commit (repo_access.rs:7-12):
\* the date of the commit, of the merge base for a tag; or the lookup fails
bound_to_date(commit) == env.merge_base[commit]

\* the closure fixup of translate_tags (bounds.rs:165-180)
fixup(bound) ==
    IF is_tag(bound)
    THEN IF bound_to_date(bound.commit).ok
         THEN [ok |-> TRUE, bound |-> DateBound(bound_to_date(bound.commit).date)]
         ELSE [ok |-> FALSE, bound |-> bound]
    ELSE [ok |-> TRUE, bound |-> bound]

\* translate_tags (bounds.rs:150-182)
translate_tags(a) ==
    IF ~(is_datelike(a.start) /\ is_datelike(a.end))
    THEN [ok |-> TRUE, start |-> a.start, end |-> a.end]
    ELSE IF ~fixup(a.start).ok \/ ~fixup(a.end).ok
    THEN [ok |-> FALSE, start |-> a.start, end |-> a.end]
    ELSE [ok |-> TRUE, start |-> fixup(a.start).bound, end |-> fixup(a.end).bound]

\* find_latest_nightly (bounds.rs:212-225): [ok, date]
find_latest_nightly == env.latest

\* installed_nightly_or_latest (bounds.rs:204-209)
installed_nightly_or_latest ==
    IF env.installed # {}
    THEN [ok |-> TRUE, date |-> CHOOSE d \in env.installed : TRUE]
    ELSE find_latest_nightly

\* date_to_sha (bounds.rs:185-199): the commit hash file of the nightly
date_to_sha(date) ==
    IF date \in env.missing THEN [ok |-> FALSE, sha |-> <<>>]
    ELSE [ok |-> TRUE, sha |-> <<"n", Digit(date)>>]

\* the errors from_args returns
ArgError(msg, names) == [kind |-> "Err", msg |-> msg, names |-> names]
NetError == ArgError("network", <<>>)

\* the closure check_in_future (bounds.rs:72-80): the date is after today
\* the mutant: today is in the future as well
in_future_orToday(date) == date >= env.today

in_future(date) == date > env.today
FutureError(which, date) ==
    ArgError("date should be on or before current date", <<which, date, env.today>>)

\* the last arm of the match (bounds.rs:123-129): a commit and a date
\* the mutant: the two bounds are taken as they are
mixed_bounds_taken(start, end) == [kind |-> "Commits", start |-> start, end |-> end]

mixed_bounds(start, end) ==
    ArgError("cannot take different types of bounds for start/end", <<start, end>>)

\* the match of from_args (bounds.rs:81-130) on what translate_tags returned
MatchBounds(start, end) ==
    CASE start.kind = "None" /\ end.kind = "None" ->
           IF installed_nightly_or_latest.ok
           THEN [kind |-> "SearchNightlyBackwards", end |-> installed_nightly_or_latest.date]
           ELSE NetError
      [] start.kind = "Commit" /\ end.kind = "Commit" ->
           [kind |-> "Commits", start |-> start.commit, end |-> end.commit]
      [] start.kind = "Commit" /\ end.kind = "None" ->
           [kind |-> "Commits", start |-> start.commit, end |-> OriginMaster]
      [] start.kind = "None" /\ end.kind = "Commit" ->
           [kind |-> "Commits", start |-> EPOCH_COMMIT, end |-> end.commit]
      [] start.kind = "Date" /\ end.kind = "Date" ->
           IF in_future(start.date) THEN FutureError("start", start.date)
           ELSE IF in_future(end.date) THEN FutureError("end", end.date)
           ELSE [kind |-> "Dates", start |-> start.date, end |-> end.date]
      [] start.kind = "Date" /\ end.kind = "None" ->
           IF in_future(start.date) THEN FutureError("start", start.date)
           ELSE IF find_latest_nightly.ok
           THEN [kind |-> "Dates", start |-> start.date, end |-> find_latest_nightly.date]
           ELSE NetError
      [] start.kind = "None" /\ end.kind = "Date" ->
           IF in_future(end.date) THEN FutureError("end", end.date)
           ELSE IF args.by_commit
           THEN ArgError("--by-commit with an end date requires --start to be specified",
                         <<>>)
           ELSE [kind |-> "SearchNightlyBackwards", end |-> end.date]
      [] OTHER -> mixed_bounds(args.start, args.end)

\* the end of from_args (bounds.rs:131-145) on the Bounds matched
CheckDates(b) ==
    IF b.kind # "Dates" THEN b
    ELSE IF b.end < b.start
    THEN ArgError("end should be after start", <<b.start, b.end>>)
    ELSE IF ~args.by_commit THEN b
    ELSE IF ~date_to_sha(b.start).ok \/ ~date_to_sha(b.end).ok THEN NetError
    ELSE [kind |-> "Commits", start |-> date_to_sha(b.start).sha,
          end |-> date_to_sha(b.end).sha]

NoArgs == [start |-> NoBound, end |-> NoBound, by_commit |-> FALSE]
NoEnv ==
    [today |-> MaxDay, installed |-> {}, latest |-> [ok |-> TRUE, date |-> MaxDay],
     merge_base |-> [c \in CommitNames |-> [ok |-> TRUE, date |-> 1]], missing |-> {}]
NoTranslated == [ok |-> TRUE, start |-> NoBound, end |-> NoBound]
NoBounds == [kind |-> "None"]

\* nothing has been called yet
ArgsIdle ==
    /\ args = NoArgs
    /\ env = NoEnv
    /\ translated = NoTranslated
    /\ fa_result = NoBounds
    /\ apc = "idle"

\* what the repository says of a commit identifier: the date of the first tag
\* is open and its lookup may fail
MergeBases ==
    {[c \in CommitNames |->
        IF c = <<"1", ".", "6", "2">> THEN x ELSE [ok |-> TRUE, date |-> Len(c) - 2]] :
        x \in {[ok |-> FALSE, date |-> 0]} \cup {[ok |-> TRUE, date |-> d] : d \in BoundDates}}

\* what a call meets: the day, the nightly rustup has, the latest nightly on
\* the server, the repository, the nightlies that were never published
Envs ==
    {e \in [today : {MaxDay - 1, MaxDay},
            installed : {{}, {1}, {MaxDay}},
            latest : {[ok |-> FALSE, date |-> 0], [ok |-> TRUE, date |-> MaxDay - 1],
                      [ok |-> TRUE, date |-> MaxDay]},
            merge_base : MergeBases,
            missing : {{}, {1}}] :
        e.latest.ok => e.latest.date <= e.today}

\* run (main.rs:398-417) calls Bounds::from_args(&args)
CallFromArgs ==
    /\ apc = "idle"
    /\ \E a \in [start : ArgBounds, end : ArgBounds, by_commit : BOOLEAN], e \in Envs :
          args' = a /\ env' = e
    /\ translated' = NoTranslated
    /\ fa_result' = NoBounds
    /\ apc' = "translate"
    /\ UNCHANGED outsideArgs

\* bounds.rs:69: let (start, end) = translate_tags(&args)?
TranslateTags ==
    /\ apc = "translate"
    /\ translated' = translate_tags(args)
    /\ IF translated'.ok
       THEN apc' = "match" /\ UNCHANGED fa_result
       ELSE apc' = "done" /\ fa_result' = ArgError("repository", <<>>)
    /\ UNCHANGED <<args, env>>
    /\ UNCHANGED outsideArgs

\* bounds.rs:81-130: the match on (start, end)
Match ==
    /\ apc = "match"
    /\ fa_result' = MatchBounds(translated.start, translated.end)
    /\ apc' = IF fa_result'.kind = "Err" THEN "done" ELSE "check"
    /\ UNCHANGED <<args, env, translated>>
    /\ UNCHANGED outsideArgs

\* bounds.rs:131-145: the order of the dates, --by-commit
Check ==
    /\ apc = "check"
    /\ fa_result' = CheckDates(fa_result)
    /\ apc' = "done"
    /\ UNCHANGED <<args, env, translated>>
    /\ UNCHANGED outsideArgs

\* from_args has returned
FromArgsReturned ==
    /\ apc = "done"
    /\ args' = NoArgs
    /\ env' = NoEnv
    /\ translated' = NoTranslated
    /\ fa_result' = NoBounds
    /\ apc' = "idle"
    /\ UNCHANGED outsideArgs

-----------------------------------------------------------------------------
(* NightlyFinderIter (main.rs:713-747) on its own. *)

\* how many dates are taken from an iterator
MaxYield == 12
\* the dates an iterator starts from
StartDates == 100 .. 100 + MaxYield

\* nothing has been called yet
FinderIdle ==
    /\ finder = [start_date |-> 0, current_date |-> 0]
    /\ yielded = <<>>

\* NightlyFinderIter::new(start_date) (main.rs:720-726)
FinderNew ==
    /\ finder.start_date = 0
    /\ \E d \in StartDates : finder' = [start_date |-> d, current_date |-> d]
    /\ yielded' = <<>>
    /\ UNCHANGED outsideFinder

\* Iterator::next (main.rs:730-746)
FinderTakes ==
    /\ finder.start_date # 0
    /\ Len(yielded) < MaxYield
    /\ finder' = NightlyFinderNext(finder)
    /\ yielded' = Append(yielded, finder'.current_date)
    /\ UNCHANGED outsideFinder

\* the iterator is dropped
FinderDropped ==
    /\ finder.start_date # 0
    /\ finder' = [start_date |-> 0, current_date |-> 0]
    /\ yielded' = <<>>
    /\ UNCHANGED outsideFinder

-----------------------------------------------------------------------------
(* Config::bisect_ci_via and the two repository accessors.                  *)
(*                                                                          *)
(* The default branch is a first-parent chain: commit i has the first       *)
(* parent i - 1 and commit 1, the root, has none. A sha is the commit's     *)
(* position. A commit carries the name of its author, who is also its       *)
(* committer, and its date; git does not order the dates along the chain.   *)

\* the length of the chain
MaxChain == 4

\* the dates a commit may carry
Stamps == 1 .. 3

\* main.rs:39
BORS_AUTHOR == "bors"

ChainCommits == [by : {BORS_AUTHOR, "other"}, date : Stamps]

Histories == [1 .. MaxChain -> ChainCommits]

Accesses == {"Checkout", "Github"}

ReverseSeq(s) == [j \in 1 .. Len(s) |-> s[Len(s) + 1 - j]]

CommitsOk(s) == [kind |-> "Ok", commits |-> s]
CommitsErr(msg) == [kind |-> "Err", commits |-> <<>>, msg |-> msg]
CommitsPanic == [kind |-> "Panic", commits |-> <<>>]

\* git.rs:154-164, the closure of get_commits_between
git_by_bors(h, c) == h[c].by = BORS_AUTHOR

\* git.rs:176-199: the loop of get_commits_between from `current` on, `res`
\* holding the commits pushed so far (latest first)
RECURSIVE git_walk(_, _, _, _)
git_walk(h, first, current, res) ==
    IF ~git_by_bors(h, current)
    THEN CommitsErr("Expected author to be bors")
    ELSE IF current = 1
    THEN CommitsErr("reached end of repo without encountering the first commit")
    ELSE IF ~git_by_bors(h, current - 1)
    THEN IF current - 1 = 1
         THEN CommitsPanic
         ELSE git_walk(h, first, current - 2, Append(res, current))
    ELSE IF current - 1 = first
    THEN CommitsOk(ReverseSeq(Append(Append(res, current), first)))
    ELSE git_walk(h, first, current - 1, Append(res, current))

\* git.rs:145-208, behind AccessViaLocalGit::commits (repo_access.rs:35-47)
git_get_commits_between(h, first, last) ==
    IF ~git_by_bors(h, first) \/ ~git_by_bors(h, last)
    THEN CommitsErr("Expected author to be bors")
    ELSE git_walk(h, first, last, <<>>)

\* what api.github.com lists for /commits?author=bors&since=..&sha=..: the
\* commits reachable from `sha` that bors wrote, not older than `since`,
\* latest first
RECURSIVE github_listing(_, _, _)
github_listing(h, since, sha) ==
    IF sha = 0
    THEN <<>>
    ELSE IF h[sha].by = BORS_AUTHOR /\ h[sha].date >= since
    THEN <<sha>> \o github_listing(h, since, sha - 1)
    ELSE github_listing(h, since, sha - 1)

\* github.rs:160-172: the elements are pushed up to and with earliest_sha
RECURSIVE take_until(_, _)
take_until(elems, earliest_sha) ==
    IF elems = <<>>
    THEN <<>>
    ELSE IF Head(elems) = earliest_sha
    THEN <<Head(elems)>>
    ELSE <<Head(elems)>> \o take_until(Tail(elems), earliest_sha)

\* github.rs:136-192, CommitsQuery::get_commits
get_commits(h, since_date, most_recent_sha, earliest_sha) ==
    CommitsOk(ReverseSeq(take_until(github_listing(h, since_date, most_recent_sha),
                                    earliest_sha)))

\* repo_access.rs:55-81, AccessViaGithub::commits
github_commits(h, start_sha, end_sha) ==
    get_commits(h, h[start_sha].date - 1, end_sha, start_sha)

\* repo_access.rs:24, RustRepositoryAccessor::commits
access_commits(access, h, start_sha, end_sha) ==
    IF access = "Checkout"
    THEN git_get_commits_between(h, start_sha, end_sha)
    ELSE github_commits(h, start_sha, end_sha)

\* main.rs:1020, the closure of the order check, on one pair
sorted_by_date_unchecked(a, b) == TRUE

sorted_by_date(a, b) == a.date <= b.date

\* main.rs:1019-1028: no pair of neighbours trips the assertion
chronological(h, cs) ==
    \A j \in 1 .. Len(cs) - 1 : sorted_by_date(h[cs[j]], h[cs[j + 1]])

NoQuery == [start |-> 0, end |-> 0, access |-> "None"]

NoListing == [kind |-> "None", commits |-> <<>>]

RepoIdle ==
    /\ history = <<>>
    /\ query = NoQuery
    /\ listed = NoListing
    /\ handed = <<>>
    /\ probed = {}
    /\ via_err = "None"
    /\ rpc = "idle"

\* bisect_ci_via is called on some history, with some pair of commits
CallBisectCiVia ==
    /\ rpc = "idle"
    /\ \E h \in Histories, s \in 1 .. MaxChain, e \in 1 .. MaxChain, a \in Accesses :
        /\ history' = h
        /\ query' = [start |-> s, end |-> e, access |-> a]
    /\ rpc' = "lookup"
    /\ UNCHANGED <<listed, handed, probed, via_err>>
    /\ UNCHANGED outsideRepo

\* main.rs:991-1006: an endpoint that bors did not commit
ViaLookupFails ==
    /\ rpc = "lookup"
    /\ \/ history[query.start].by # BORS_AUTHOR
       \/ history[query.end].by # BORS_AUTHOR
    /\ via_err' = "Expected author to be bors"
    /\ rpc' = "failed"
    /\ UNCHANGED <<history, query, listed, handed, probed>>
    /\ UNCHANGED outsideRepo

\* main.rs:1007: access.commits
ViaCommits ==
    /\ rpc = "lookup"
    /\ history[query.start].by = BORS_AUTHOR
    /\ history[query.end].by = BORS_AUTHOR
    /\ listed' = access_commits(query.access, history, query.start, query.end)
    /\ rpc' = "listed"
    /\ UNCHANGED <<history, query, handed, probed, via_err>>
    /\ UNCHANGED outsideRepo

\* main.rs:1007: the `?` on an error of access.commits
ViaCommitsFails ==
    /\ rpc = "listed"
    /\ listed.kind = "Err"
    /\ via_err' = listed.msg
    /\ rpc' = "failed"
    /\ UNCHANGED <<history, query, listed, handed, probed>>
    /\ UNCHANGED outsideRepo

\* git.rs:189: unwrap on the missing parent of a root that bors did not write
ViaCommitsPanics ==
    /\ rpc = "listed"
    /\ listed.kind = "Panic"
    /\ rpc' = "panicked"
    /\ UNCHANGED <<history, query, listed, handed, probed, via_err>>
    /\ UNCHANGED outsideRepo

\* main.rs:1009-1017: no commit, or a last commit that is not the end
ViaCheckFails ==
    /\ rpc = "listed"
    /\ listed.kind = "Ok"
    /\ \/ /\ listed.commits = <<>>
          /\ via_err' = "expected at least one commit"
       \/ /\ listed.commits # <<>>
          /\ listed.commits[Len(listed.commits)] # query.end
          /\ via_err' = "expected the last commit to be end"
    /\ rpc' = "failed"
    /\ UNCHANGED <<history, query, listed, handed, probed>>
    /\ UNCHANGED outsideRepo

\* main.rs:1019-1028: the assertion on the order of the dates fails
ViaOrderPanics ==
    /\ rpc = "listed"
    /\ listed.kind = "Ok"
    /\ listed.commits # <<>>
    /\ listed.commits[Len(listed.commits)] = query.end
    /\ ~chronological(history, listed.commits)
    /\ rpc' = "panicked"
    /\ UNCHANGED <<history, query, listed, handed, probed, via_err>>
    /\ UNCHANGED outsideRepo

\* main.rs:1039: the commits go to bisect_ci_in_commits
ViaInCommits ==
    /\ rpc = "listed"
    /\ listed.kind = "Ok"
    /\ listed.commits # <<>>
    /\ listed.commits[Len(listed.commits)] = query.end
    /\ chronological(history, listed.commits)
    /\ handed' = listed.commits
    /\ rpc' = "in_commits"
    /\ UNCHANGED <<history, query, listed, probed, via_err>>
    /\ UNCHANGED outsideRepo

\* main.rs:1085-1108: bisect_ci_in_commits installs toolchains of the commits
\* it was handed
InCommitsProbes ==
    /\ rpc = "in_commits"
    /\ \E j \in 1 .. Len(handed) : probed' = {handed[j]}
    /\ rpc' = "probing"
    /\ UNCHANGED <<history, query, listed, handed, via_err>>
    /\ UNCHANGED outsideRepo

\* bisect_ci_via is over
ViaReturned ==
    /\ rpc \in {"failed", "panicked", "probing"}
    /\ history' = <<>>
    /\ query' = NoQuery
    /\ listed' = NoListing
    /\ handed' = <<>>
    /\ probed' = {}
    /\ via_err' = "None"
    /\ rpc' = "idle"
    /\ UNCHANGED outsideRepo

-----------------------------------------------------------------------------
(* extract_perf_builds (main.rs:1241-1295). Strings are sequences of          *)
(* characters; the body of a comment is its lines joined by line feeds.       *)

\* the rows of a comment body
MaxRows == 3

\* main.rs:1245, the {40} of the regular expression
ShaLen == 40

\* [0-9a-f] under case_insensitive(true) (main.rs:1245-1246)
HexDigits ==
    {"0", "1", "2", "3", "4", "5", "6", "7", "8", "9", "a", "b", "c", "d", "e", "f",
     "A", "B", "C", "D", "E", "F"}

\* str::contains with a string pattern
contains_str(str, pat) ==
    \E i \in 1 .. Len(str) + 1 - Len(pat) : SubSeq(str, i, i + Len(pat) - 1) = pat

\* the positions of the separator in the string, with 0 before the string and
\* Len + 1 after it, in order
cuts(str, sep) ==
    LET at == {0, Len(str) + 1} \cup {i \in 1 .. Len(str) : str[i] = sep}
    IN  [k \in 1 .. Cardinality(at) |->
            CHOOSE i \in at : Cardinality({j \in at : j < i}) = k - 1]

\* str::split with a character: the pieces between the separators
split(str, sep) ==
    [k \in 1 .. Len(cuts(str, sep)) - 1 |->
        SubSeq(str, cuts(str, sep)[k] + 1, cuts(str, sep)[k + 1] - 1)]

\* Iterator::nth, counted from 0: the element, or <<>> for None as a sequence of
\* at most one element
nth(pieces, n) == IF n + 1 <= Len(pieces) THEN <<pieces[n + 1]>> ELSE <<>>

\* str::lines: the pieces between line feeds, without a last empty one
lines(str) ==
    IF str = <<>>
    THEN <<>>
    ELSE IF str[Len(str)] = "\n"
    THEN split(SubSeq(str, 1, Len(str) - 1), "\n")
    ELSE split(str, "\n")

\* the regular expression matches at position i of the line
sha_at(line, i) ==
    /\ i + ShaLen - 1 <= Len(line)
    /\ \A k \in i .. i + ShaLen - 1 : line[k] \in HexDigits

\* Regex::find_iter (main.rs:1254-1255): the matches from position i on, one
\* after the end of the other, leftmost first
RECURSIVE find_iter(_, _)
find_iter(line, i) ==
    IF \A p \in i .. Len(line) : ~sha_at(line, p)
    THEN <<>>
    ELSE LET p == CHOOSE p \in i .. Len(line) :
                      sha_at(line, p) /\ \A q \in i .. p - 1 : ~sha_at(line, q)
         IN  <<SubSeq(line, p, p + ShaLen - 1)>> \o find_iter(line, p + ShaLen)

\* the mutant: the first match is taken
pick_sha_first(matches) == IF matches = <<>> THEN <<>> ELSE <<matches[1]>>

\* main.rs:1254-1257: Iterator::last, <<>> for None
pick_sha(matches) == IF matches = <<>> THEN <<>> ELSE <<matches[Len(matches)]>>

\* main.rs:1262-1283: the description of a row whose sha is `sha`
describe(line, sha) ==
    LET pr == nth(split(line, "|"), 1)[1]
        title == nth(split(line, "|"), 2)
    IN  IF title # <<>> /\ ~contains_str(title[1], sha)
        THEN pr \o <<":", " ">> \o title[1]
        ELSE pr

\* sequences of characters the rows are made of
ShaA ==
    <<"0", "5", "b", "0", "7", "d", "a", "d", "1", "4", "6", "a", "6", "d", "4", "3",
      "e", "a", "d", "9", "b", "c", "d", "1", "e", "8", "b", "c", "1", "0", "c", "b",
      "d", "0", "1", "7", "a", "5", "f", "5">>
ShaB ==
    <<"b", "b", "e", "c", "6", "d", "6", "e", "4", "1", "3", "a", "a", "1", "4", "4",
      "c", "8", "b", "9", "3", "4", "6", "d", "a", "2", "7", "a", "0", "f", "2", "a",
      "f", "2", "9", "9", "c", "b", "e", "b">>
ShaUpper ==
    <<"E", "1", "D", "F", "9", "E", "3", "0", "6", "0", "5", "4", "6", "5", "5", "D",
      "7", "D", "4", "1", "E", "C", "1", "A", "D", "7", "5", "A", "D", "E", "5", "D",
      "7", "6", "A", "6", "8", "8", "8", "D">>
\* the rows of the two formats of the tests (main.rs:1325-1413) and others
\* |#113009|[sha](sha)|
RowV1 ==
    <<"|", "#", "1", "1", "3", "0", "0", "9", "|", "[">>
    \o ShaA
    \o <<"]", "(">>
    \o ShaA
    \o <<")", "|">>
\* |#112207|Add tests|'sha' (sha)|, the grave accents written as apostrophes
RowV2 ==
    <<"|", "#", "1", "1", "2", "2", "0", "7", "|", "A", "d", "d", " ", "t", "e", "s", "t", "s", "|", "'">>
    \o ShaB
    \o <<"'", " ", "(">>
    \o ShaB
    \o <<")", "|">>
\* a title that holds another sha
RowShaInTitle ==
    <<"|", "#", "3", "|", "R", "e", "v", "e", "r", "t", " ">>
    \o ShaA
    \o <<"|">>
    \o ShaB
    \o <<"|">>
\* a sha in capitals
RowUpper ==
    <<"|", "#", "4", "|", "T", "|">>
    \o ShaUpper
    \o <<"|">>
\* a row without a sha
RowNoSha ==
    <<"|", "#", "5", "|", "T", "|", "0", "5", "b", "0", "7", "d", "a", "d", "|">>
\* the header of the table
RowHeader ==
    <<"|", "P", "R", "#", "|", "S", "h", "a", "|">>
\* a sha on a line outside the table
RowOutside ==
    <<"s", "e", "e", " ">>
    \o ShaA
\* a row that ends with its sha
RowNoColumns ==
    <<"|", "#", "6", " ">>
    \o ShaB
\* a run of 42 hexadecimal digits
RowLongRun ==
    <<"|", "#", "7", "|", "T", "|">>
    \o ShaA
    \o <<"a", "b", "|">>

Rows ==
    {RowV1, RowV2, RowShaInTitle, RowUpper, RowNoSha, RowHeader, RowOutside, RowNoColumns,
     RowLongRun}

\* the lines joined, each ended by a line feed but the last
RECURSIVE join_lines(_)
join_lines(ls) ==
    IF ls = <<>>
    THEN <<>>
    ELSE IF Len(ls) = 1
    THEN ls[1]
    ELSE ls[1] \o <<"\n">> \o join_lines(Tail(ls))

Bodies ==
    {join_lines(ls) : ls \in UNION {[1 .. n -> Rows] : n \in 1 .. MaxRows}}

ExtractIdle ==
    /\ body = <<>>
    /\ lines_left = <<>>
    /\ builds = <<>>
    /\ descriptions = <<>>
    /\ xpc = "idle"

\* extract_perf_builds is called on a body
CallExtract ==
    /\ xpc = "idle"
    /\ \E b \in Bodies :
        /\ body' = b
        /\ lines_left' = lines(b)
    /\ xpc' = "loop"
    /\ UNCHANGED <<builds, descriptions>>
    /\ UNCHANGED outsideExtract

\* main.rs:1250-1251: a line outside the table is filtered out
ExtractFiltersLine ==
    /\ xpc = "loop"
    /\ lines_left # <<>>
    /\ ~starts_with(Head(lines_left), <<"|", "#">>)
    /\ lines_left' = Tail(lines_left)
    /\ UNCHANGED <<body, builds, descriptions, xpc>>
    /\ UNCHANGED outsideExtract

\* main.rs:1260: a row without a sha
ExtractSkipsRow ==
    /\ xpc = "loop"
    /\ lines_left # <<>>
    /\ starts_with(Head(lines_left), <<"|", "#">>)
    /\ pick_sha(find_iter(Head(lines_left), 1)) = <<>>
    /\ lines_left' = Tail(lines_left)
    /\ UNCHANGED <<body, builds, descriptions, xpc>>
    /\ UNCHANGED outsideExtract

\* main.rs:1262-1287: a row with a sha
ExtractRow ==
    /\ xpc = "loop"
    /\ lines_left # <<>>
    /\ starts_with(Head(lines_left), <<"|", "#">>)
    /\ pick_sha(find_iter(Head(lines_left), 1)) # <<>>
    /\ builds' = Append(builds, pick_sha(find_iter(Head(lines_left), 1))[1])
    /\ descriptions' =
           Append(descriptions,
                  describe(Head(lines_left), pick_sha(find_iter(Head(lines_left), 1))[1]))
    /\ lines_left' = Tail(lines_left)
    /\ UNCHANGED <<body, xpc>>
    /\ UNCHANGED outsideExtract

\* main.rs:1290-1293: Ok(PerfBuildsContext)
ExtractReturns ==
    /\ xpc = "loop"
    /\ lines_left = <<>>
    /\ xpc' = "returned"
    /\ UNCHANGED <<body, lines_left, builds, descriptions>>
    /\ UNCHANGED outsideExtract

\* the context is dropped
ExtractDropped ==
    /\ xpc = "returned"
    /\ body' = <<>>
    /\ lines_left' = <<>>
    /\ builds' = <<>>
    /\ descriptions' = <<>>
    /\ xpc' = "idle"
    /\ UNCHANGED outsideExtract

-----------------------------------------------------------------------------
(* Config::search_perf_builds (main.rs:1117-1152) and linear_in_commits       *)
(* (main.rs:1154-1187), called by do_perf_search on the commit found.         *)

\* "Auto merge of #" (main.rs:1127)
AutoMergeOf ==
    <<"A", "u", "t", "o", " ", "m", "e", "r", "g", "e", " ", "o", "f", " ", "#">>

\* "Rollup of" (main.rs:1127)
RollupOf ==
    <<"R", "o", "l", "l", "u", "p", " ", "o", "f">>

\* "Perf builds for each rolled up PR" (main.rs:1137)
PerfMarker ==
    <<"P", "e", "r", "f", " ", "b", "u", "i", "l", "d", "s", " ", "f", "o", "r", " ",
      "e", "a", "c", "h", " ", "r", "o", "l", "l", "e", "d", " ", "u", "p", " ", "P",
      "R">>

\* the message of the merge of a rollup
SummaryRollup ==
    <<"A", "u", "t", "o", " ", "m", "e", "r", "g", "e", " ", "o", "f", " ", "#", "7",
      " ", "-", " ", "r", "=", "m", "\n", "\n", "R", "o", "l", "l", "u", "p", " ",
      "o", "f", " ", "2", " ", "p", "u", "l", "l", " ", "r", "e", "q", "u", "e", "s",
      "t", "s">>

\* the message of the merge of a pull request that is no rollup
SummaryMerge ==
    <<"A", "u", "t", "o", " ", "m", "e", "r", "g", "e", " ", "o", "f", " ", "#", "8",
      " ", "-", " ", "f", "i", "x", ",", " ", "r", "=", "m">>

\* messages that bors did not write
SummaryRollupOnly ==
    <<"R", "o", "l", "l", "u", "p", " ", "o", "f", " ", "2", " ", "p", "u", "l", "l",
      " ", "r", "e", "q", "u", "e", "s", "t", "s">>

SummaryShort ==
    <<"R", "e", "v", "e", "r", "t", " ", "R", "o", "l", "l", "u", "p", " ", "o", "f">>

SummaryPlain ==
    <<"f", "i", "x", " ", "t", "y", "p", "o", " ", "i", "n", " ", "t", "h", "e", " ",
      "d", "o", "c", "s">>

Summaries == {SummaryRollup, SummaryMerge, SummaryRollupOnly, SummaryShort, SummaryPlain}

\* main.rs:1127, the condition of the bail
not_rollup(summary) ==
    ~starts_with(summary, AutoMergeOf) /\ ~contains_str(summary, RollupOf)

\* main.rs:1130-1132: the fourth word of the message without its first
\* character, <<>> where unwrap panics
pr_of(summary) ==
    LET word == nth(split(summary, " "), 3)
    IN  IF word = <<>> THEN <<>> ELSE <<SubSeq(word[1], 2, Len(word[1]))>>

\* the bodies of comments
BodyPerf == PerfMarker \o <<":", "\n">> \o join_lines(<<RowHeader, RowV1, RowV2, RowUpper>>)
BodyPerfEmpty == PerfMarker \o <<":", "\n">> \o RowHeader
BodyOther == join_lines(<<RowHeader, RowV1>>)

\* what api.github.com answers to the request of the comments
CommentLists ==
    { <<>>,
      <<[login |-> "rust-timer", body |-> BodyPerf]>>,
      <<[login |-> "someone", body |-> BodyPerf]>>,
      <<[login |-> "rust-timer", body |-> BodyOther],
        [login |-> "rust-timer", body |-> BodyPerf]>>,
      <<[login |-> "rust-timer", body |-> BodyPerfEmpty]>>,
      <<[login |-> "rust-timer", body |-> BodyOther]>> }

CommentAnswers ==
    {[ok |-> FALSE, comments |-> <<>>]} \cup {[ok |-> TRUE, comments |-> cs] : cs \in CommentLists}

\* main.rs:1134-1137: the comments of rust-timer that hold the marker
perf_comments(comments) ==
    SelectSeq(comments,
              LAMBDA c : c.login = "rust-timer" /\ contains_str(c.body, PerfMarker))

\* main.rs:1241-1295, extract_perf_builds on the lines ls: the builds
RECURSIVE extract_builds(_)
extract_builds(ls) ==
    IF ls = <<>>
    THEN <<>>
    ELSE IF /\ starts_with(Head(ls), <<"|", "#">>)
            /\ pick_sha(find_iter(Head(ls), 1)) # <<>>
    THEN pick_sha(find_iter(Head(ls), 1)) \o extract_builds(Tail(ls))
    ELSE extract_builds(Tail(ls))

\* what install_and_test returns for a build: Ok(Yes), Ok(No), Ok(Unknown), or
\* the error of an install that failed
ProbeResults == {"Yes", "No", "Unknown", "InstallError"}

\* the mutant: a build that fails to install ends the scan
position_hit_onError(res) == res \in {"Yes", "InstallError"}

\* main.rs:1175-1178: install_and_test(..).unwrap_or(Unknown) == Yes
position_hit(res) == (IF res = "InstallError" THEN "Unknown" ELSE res) = "Yes"

NoPerfIn ==
    [kind |-> "None", commit_ok |-> FALSE, summary |-> <<>>,
     comments |-> [ok |-> FALSE, comments |-> <<>>], outcomes |-> <<>>]

NoPerfOut == [kind |-> "None", found |-> 0, msg |-> "None"]

PerfErr(msg) == [kind |-> "Err", found |-> 0, msg |-> msg]

PerfIdle ==
    /\ perf_in = NoPerfIn
    /\ fetched = <<>>
    /\ perf_builds = <<>>
    /\ perf_probed = <<>>
    /\ perf_out = NoPerfOut
    /\ ppc = "idle"

\* do_perf_search calls search_perf_builds on the toolchain found
CallSearchPerfBuilds ==
    /\ ppc = "idle"
    /\ \E k \in {"Ci", "Nightly"}, ok \in BOOLEAN, s \in Summaries, a \in CommentAnswers,
          o \in [1 .. MaxRows -> ProbeResults] :
        perf_in' = [kind |-> k, commit_ok |-> ok, summary |-> s, comments |-> a,
                    outcomes |-> o]
    /\ ppc' = "called"
    /\ UNCHANGED <<fetched, perf_builds, perf_probed, perf_out>>
    /\ UNCHANGED outsidePerf

\* main.rs:1119-1125
PerfNotCi ==
    /\ ppc = "called"
    /\ perf_in.kind # "Ci"
    /\ perf_out' = PerfErr("not a ci commit")
    /\ ppc' = "done"
    /\ UNCHANGED <<perf_in, fetched, perf_builds, perf_probed>>
    /\ UNCHANGED outsidePerf

\* main.rs:1126: get_commit fails
PerfGetCommitFails ==
    /\ ppc = "called"
    /\ perf_in.kind = "Ci"
    /\ ~perf_in.commit_ok
    /\ perf_out' = PerfErr("error: url response")
    /\ ppc' = "done"
    /\ UNCHANGED <<perf_in, fetched, perf_builds, perf_probed>>
    /\ UNCHANGED outsidePerf

\* main.rs:1127-1129
PerfNotRollup ==
    /\ ppc = "called"
    /\ perf_in.kind = "Ci"
    /\ perf_in.commit_ok
    /\ not_rollup(perf_in.summary)
    /\ perf_out' = PerfErr("not a rollup pr")
    /\ ppc' = "done"
    /\ UNCHANGED <<perf_in, fetched, perf_builds, perf_probed>>
    /\ UNCHANGED outsidePerf

\* main.rs:1130: unwrap on a message of fewer than four words
PerfPrPanics ==
    /\ ppc = "called"
    /\ perf_in.kind = "Ci"
    /\ perf_in.commit_ok
    /\ ~not_rollup(perf_in.summary)
    /\ pr_of(perf_in.summary) = <<>>
    /\ perf_out' = [kind |-> "Panic", found |-> 0, msg |-> "None"]
    /\ ppc' = "done"
    /\ UNCHANGED <<perf_in, fetched, perf_builds, perf_probed>>
    /\ UNCHANGED outsidePerf

\* main.rs:1133: get_pr_comments
PerfFetchComments ==
    /\ ppc = "called"
    /\ perf_in.kind = "Ci"
    /\ perf_in.commit_ok
    /\ ~not_rollup(perf_in.summary)
    /\ pr_of(perf_in.summary) # <<>>
    /\ fetched' = Append(fetched, pr_of(perf_in.summary)[1])
    /\ ppc' = "comments"
    /\ UNCHANGED <<perf_in, perf_builds, perf_probed, perf_out>>
    /\ UNCHANGED outsidePerf

\* main.rs:1133: the `?` on the error of get_pr_comments
PerfCommentsFail ==
    /\ ppc = "comments"
    /\ ~perf_in.comments.ok
    /\ perf_out' = PerfErr("error: url response")
    /\ ppc' = "done"
    /\ UNCHANGED <<perf_in, fetched, perf_builds, perf_probed>>
    /\ UNCHANGED outsidePerf

\* main.rs:1134-1138
PerfNoComment ==
    /\ ppc = "comments"
    /\ perf_in.comments.ok
    /\ perf_comments(perf_in.comments.comments) = <<>>
    /\ perf_out' = PerfErr("couldn't find perf build comment")
    /\ ppc' = "done"
    /\ UNCHANGED <<perf_in, fetched, perf_builds, perf_probed>>
    /\ UNCHANGED outsidePerf

\* main.rs:1139-1147: the builds of the first such comment go to
\* linear_in_commits
PerfExtract ==
    /\ ppc = "comments"
    /\ perf_in.comments.ok
    /\ perf_comments(perf_in.comments.comments) # <<>>
    /\ perf_builds' = extract_builds(lines(perf_comments(perf_in.comments.comments)[1].body))
    /\ ppc' = "scan"
    /\ UNCHANGED <<perf_in, fetched, perf_probed, perf_out>>
    /\ UNCHANGED outsidePerf

\* main.rs:1175-1178: the closure returned true for the toolchain probed last
last_hit ==
    /\ perf_probed # <<>>
    /\ position_hit(perf_in.outcomes[perf_probed[Len(perf_probed)]])

\* main.rs:1175-1178: position calls the closure on the next toolchain
LinearProbe ==
    /\ ppc = "scan"
    /\ Len(perf_probed) < Len(perf_builds)
    /\ ~last_hit
    /\ perf_probed' = Append(perf_probed, Len(perf_probed) + 1)
    /\ UNCHANGED <<perf_in, fetched, perf_builds, perf_out, ppc>>
    /\ UNCHANGED outsidePerf

\* main.rs:1175-1186: position returns Some(found)
LinearFound ==
    /\ ppc = "scan"
    /\ last_hit
    /\ perf_out' = [kind |-> "Ok", found |-> perf_probed[Len(perf_probed)] - 1,
                    msg |-> "None"]
    /\ ppc' = "done"
    /\ UNCHANGED <<perf_in, fetched, perf_builds, perf_probed>>
    /\ UNCHANGED outsidePerf

\* main.rs:1179-1180: position returns None
LinearNone ==
    /\ ppc = "scan"
    /\ Len(perf_probed) = Len(perf_builds)
    /\ ~last_hit
    /\ perf_out' = PerfErr("none of the toolchains satisfied the predicate")
    /\ ppc' = "done"
    /\ UNCHANGED <<perf_in, fetched, perf_builds, perf_probed>>
    /\ UNCHANGED outsidePerf

\* do_perf_search is over
PerfReturned ==
    /\ ppc = "done"
    /\ perf_in' = NoPerfIn
    /\ fetched' = <<>>
    /\ perf_builds' = <<>>
    /\ perf_probed' = <<>>
    /\ perf_out' = NoPerfOut
    /\ ppc' = "idle"
    /\ UNCHANGED outsidePerf

-----------------------------------------------------------------------------
(* main (main.rs:1207-1218), run (main.rs:398-417) and Config::from_args     *)
(* (main.rs:363-395). Bounds::from_args, Config::install and Config::bisect  *)
(* are the calls modelled above; here each is what it returns.               *)

\* what Bounds::from_args returns (bounds.rs:68-145): Ok, or one of its errors;
\* `accessed` when translate_tags looked a tag up in the repository first
BoundErrors ==
    {"date should be on or before current date",
     "cannot take different types of bounds for start/end",
     "end should be after start",
     "--by-commit with an end date requires --start to be specified"}

BoundsResults ==
    {[kind |-> "Ok", msg |-> "None", accessed |-> a] : a \in BOOLEAN}
    \cup {[kind |-> "Err", msg |-> m, accessed |-> a] :
            m \in BoundErrors \cup {"network"}, a \in BOOLEAN}

\* no tag is translated next to a sha (bounds.rs:160-163), so none was looked
\* up when the bounds are of different types
BoundsResultOk(b) ==
    b.msg = "cannot take different types of bounds for start/end" => ~b.accessed

RunOk == [kind |-> "Ok", msg |-> "None", code |-> 0]
RunErr(msg) == [kind |-> "Err", msg |-> msg, code |-> 0]
RunExit(code) == [kind |-> "ExitError", msg |-> "None", code |-> code]

\* what Config::install or Config::bisect returns: Ok, an error of the
\* bisection, or an ExitError; no code of the repository makes an ExitError,
\* the value stands for main's branch for it (main.rs:1210)
DispatchResults ==
    {RunOk,
     RunErr("could not find"),
     RunErr("the start of the range must not reproduce the regression"),
     RunErr("the end of the range does not reproduce the regression"),
     RunErr("cannot bisect nightlies with --alt"),
     RunExit(3), RunExit(101)}

\* the rustup home: rustup_home() succeeds, tmp exists, create_dir would
\* succeed, toolchains is a directory
Homes == [known : BOOLEAN, tmp : BOOLEAN, create_ok : BOOLEAN, toolchains : BOOLEAN]

\* the mutant: every error exits with 1
main_status_alwaysOne(res) == IF res.kind = "Ok" THEN 0 ELSE 1

\* main.rs:1208-1217: the exit status for what run returned
main_status(res) ==
    IF res.kind = "Ok" THEN 0
    ELSE IF res.kind = "ExitError" THEN res.code
    ELSE 1

NoMainIn ==
    [home |-> [known |-> FALSE, tmp |-> FALSE, create_ok |-> FALSE, toolchains |-> FALSE],
     bounds |-> [kind |-> "None", msg |-> "None", accessed |-> FALSE],
     checkout_missing |-> FALSE, install |-> FALSE, outcome |-> RunOk]

NoRunResult == [kind |-> "None", msg |-> "None", code |-> 0]

MainIdle ==
    /\ main_in = NoMainIn
    /\ created = {}
    /\ installed_any = FALSE
    /\ run_result = NoRunResult
    /\ stderr_error = "None"
    /\ exit_status = -1
    /\ mpc = "idle"

\* the process starts
CallMain ==
    /\ mpc = "idle"
    /\ \E h \in Homes, b \in BoundsResults, c \in BOOLEAN, i \in BOOLEAN,
          o \in DispatchResults :
        /\ BoundsResultOk(b)
        /\ main_in' = [home |-> h, bounds |-> b, checkout_missing |-> c, install |-> i,
                       outcome |-> o]
    /\ mpc' = "from_args"
    /\ UNCHANGED <<created, installed_any, run_result, stderr_error, exit_status>>
    /\ UNCHANGED outsideMain

\* main.rs:366: home::rustup_home()? fails
ConfigNoHome ==
    /\ mpc = "from_args"
    /\ ~main_in.home.known
    /\ run_result' = RunErr("rustup home")
    /\ mpc' = "main"
    /\ UNCHANGED <<main_in, created, installed_any, stderr_error, exit_status>>
    /\ UNCHANGED outsideMain

\* main.rs:371-374: <rustup home>/tmp is made unless it exists
ConfigTmp ==
    /\ mpc = "from_args"
    /\ main_in.home.known
    /\ IF main_in.home.tmp
       THEN mpc' = "toolchains" /\ UNCHANGED <<created, run_result>>
       ELSE IF main_in.home.create_ok
       THEN mpc' = "toolchains" /\ created' = created \cup {"tmp"} /\ UNCHANGED run_result
       ELSE mpc' = "main" /\ run_result' = RunErr("create_dir") /\ UNCHANGED created
    /\ UNCHANGED <<main_in, installed_any, stderr_error, exit_status>>
    /\ UNCHANGED outsideMain

\* main.rs:376-382: toolchains is not a directory
ConfigNoToolchains ==
    /\ mpc = "toolchains"
    /\ ~main_in.home.toolchains
    /\ run_result' = RunErr("is not a directory. Please install rustup.")
    /\ mpc' = "main"
    /\ UNCHANGED <<main_in, created, installed_any, stderr_error, exit_status>>
    /\ UNCHANGED outsideMain

\* main.rs:384: Bounds::from_args(&args)?; a tag looked up through a checkout
\* that is not there clones the repository into rust.git (git.rs:96-109)
ConfigBounds ==
    /\ mpc = "toolchains"
    /\ main_in.home.toolchains
    /\ created' = IF main_in.bounds.accessed /\ main_in.checkout_missing
                  THEN created \cup {"rust.git"}
                  ELSE created
    /\ IF main_in.bounds.kind = "Err"
       THEN mpc' = "main" /\ run_result' = RunErr(main_in.bounds.msg)
       ELSE mpc' = "dispatch" /\ UNCHANGED run_result
    /\ UNCHANGED <<main_in, installed_any, stderr_error, exit_status>>
    /\ UNCHANGED outsideMain

\* main.rs:412-416: cfg.install(bound) with --install, cfg.bisect() without;
\* both install toolchains
RunDispatch ==
    /\ mpc = "dispatch"
    /\ installed_any' = TRUE
    /\ run_result' = main_in.outcome
    /\ mpc' = "main"
    /\ UNCHANGED <<main_in, created, stderr_error, exit_status>>
    /\ UNCHANGED outsideMain

\* main.rs:1208: run returned Ok, main returns
MainReturns ==
    /\ mpc = "main"
    /\ run_result.kind = "Ok"
    /\ exit_status' = main_status(run_result)
    /\ mpc' = "exited"
    /\ UNCHANGED <<main_in, created, installed_any, run_result, stderr_error>>
    /\ UNCHANGED outsideMain

\* main.rs:1209-1210: process::exit(code)
MainExitsWithCode ==
    /\ mpc = "main"
    /\ run_result.kind = "ExitError"
    /\ exit_status' = main_status(run_result)
    /\ mpc' = "exited"
    /\ UNCHANGED <<main_in, created, installed_any, run_result, stderr_error>>
    /\ UNCHANGED outsideMain

\* main.rs:1211-1215: ERROR: and the error, process::exit(1)
MainReportsError ==
    /\ mpc = "main"
    /\ run_result.kind = "Err"
    /\ stderr_error' = run_result.msg
    /\ exit_status' = main_status(run_result)
    /\ mpc' = "exited"
    /\ UNCHANGED <<main_in, created, installed_any, run_result>>
    /\ UNCHANGED outsideMain

\* the process is gone
MainOver ==
    /\ mpc = "exited"
    /\ main_in' = NoMainIn
    /\ created' = {}
    /\ installed_any' = FALSE
    /\ run_result' = NoRunResult
    /\ stderr_error' = "None"
    /\ exit_status' = -1
    /\ mpc' = "idle"
    /\ UNCHANGED outsideMain

-----------------------------------------------------------------------------
(* The specifications. *)

\* the parts modelled on their own have not been called
LaterIdle ==
    DownloadIdle
    /\ ArgsIdle
    /\ FinderIdle
    /\ RepoIdle
    /\ ExtractIdle
    /\ PerfIdle
    /\ MainIdle

InitSearch == SearchIdle /\ RunnerIdle /\ StoreIdle /\ BisectIdle /\ LaterIdle

NextSearch ==
    \/ CallSearch
    \/ CallMidpoint
    \/ SearchStep
    \/ MidpointCall

SpecSearch == InitSearch /\ [][NextSearch]_vars

\* the loop runs whenever it can: the program is sequential and never blocks
FairSearch == SpecSearch /\ WF_vars(SearchStep)

InitDeep == SearchIdle /\ RunnerIdle /\ StoreIdle /\ BisectIdle /\ LaterIdle

\* least_satisfying on slices without Unknown: the walks over runs of Unknown
\* and the exit at a recorded range are never entered
NextDeep ==
    \/ CallSearchMonotone
    \/ ReturnAdjacent
    \/ Midpoint
    \/ Scan
    \/ Test
    \/ MatchYes
    \/ MatchNo

SpecDeep == InitDeep /\ [][NextDeep]_vars

InitProbe == SearchIdle /\ RunnerIdle /\ StoreStart /\ BisectIdle /\ LaterIdle

\* one call of install_and_test after another
NextProbe ==
    \/ CallInstall
    \/ MakeTempDir
    \/ TempDirFails
    \/ ForceRemove
    \/ AlreadyInstalled
    \/ LinkNightly
    \/ Download
    \/ DownloadFails
    \/ Rename
    \/ RenameFails
    \/ ProbeTest
    \/ RunTestDirs
    \/ ProbeCleansUp
    \/ ProbeCleansUpFailed
    \/ RemoveToolchainKeeps
    \/ RemoveToolchain
    \/ ProbeReturns

SpecProbe == InitProbe /\ [][NextProbe]_vars

InitRunner == SearchIdle /\ RunnerIdle /\ StoreIdle /\ BisectIdle /\ LaterIdle

NextRunner ==
    \/ CallTest
    \/ RunTest
    \/ Classify
    \/ TimedOut
    \/ TimedOutUnasked
    \/ Prompt
    \/ SelectRegressed
    \/ SelectBaseline
    \/ SelectRetry
    \/ CallClassify
    \/ ClassifyCall

SpecRunner == InitRunner /\ [][NextRunner]_vars

InitStore == SearchIdle /\ RunnerIdle /\ StoreStart /\ BisectIdle /\ LaterIdle

NextStore ==
    \/ CallInstall
    \/ CallRemove
    \/ CallRemoveToolchain
    \/ CallRunTest
    \/ Returned
    \/ MakeTempDir
    \/ TempDirFails
    \/ ForceRemove
    \/ AlreadyInstalled
    \/ LinkNightly
    \/ Download
    \/ DownloadFails
    \/ Rename
    \/ RenameFails
    \/ Remove
    \/ RemoveToolchainKeeps
    \/ RemoveToolchain
    \/ RunTestDirs

SpecStore == InitStore /\ [][NextStore]_vars

InitBisect == SearchIdle /\ RunnerIdle /\ StoreIdle /\ BisectIdle /\ LaterIdle

NextBisect ==
    \/ CallBisect
    \/ BisectCommits
    \/ BisectNightlies
    \/ NightlyPasses
    \/ NightlyRegressed
    \/ NightlyNotFound
    \/ NightlyInstallError
    \/ NoPassingNightly
    \/ VerifyEnd
    \/ NightlyBisect
    \/ NightlySearched
    \/ PrintNightly
    \/ CommitRange
    \/ WorkingCommit
    \/ BadCommit
    \/ BisectCiVia
    \/ CiVerifyStart
    \/ CiVerifyEnd
    \/ CiBisect
    \/ CiSearched
    \/ PrintCi
    \/ DoPerfSearch
    \/ PrintFinalReport
    \/ SearchStep

SpecBisect == InitBisect /\ [][NextBisect]_vars

InitDownload == SearchIdle /\ RunnerIdle /\ StoreIdle /\ BisectIdle /\ LaterIdle

NextDownload ==
    \/ CallDownloads
    \/ RequestXz
    \/ RequestGz
    \/ RenameDownloads
    \/ DownloadsReturned

SpecDownload == InitDownload /\ [][NextDownload]_vars

InitArgs ==
    SearchIdle /\ RunnerIdle /\ StoreIdle /\ BisectIdle /\ LaterIdle

NextArgs ==
    \/ CallFromArgs
    \/ TranslateTags
    \/ Match
    \/ Check
    \/ FromArgsReturned

SpecArgs == InitArgs /\ [][NextArgs]_vars

InitFinder ==
    SearchIdle /\ RunnerIdle /\ StoreIdle /\ BisectIdle /\ LaterIdle

NextFinder ==
    \/ FinderNew
    \/ FinderTakes
    \/ FinderDropped

SpecFinder == InitFinder /\ [][NextFinder]_vars

InitRepo ==
    SearchIdle /\ RunnerIdle /\ StoreIdle /\ BisectIdle /\ LaterIdle

NextRepo ==
    \/ CallBisectCiVia
    \/ ViaLookupFails
    \/ ViaCommits
    \/ ViaCommitsFails
    \/ ViaCommitsPanics
    \/ ViaCheckFails
    \/ ViaOrderPanics
    \/ ViaInCommits
    \/ InCommitsProbes
    \/ ViaReturned

SpecRepo == InitRepo /\ [][NextRepo]_vars

InitExtract ==
    SearchIdle /\ RunnerIdle /\ StoreIdle /\ BisectIdle /\ LaterIdle

NextExtract ==
    \/ CallExtract
    \/ ExtractFiltersLine
    \/ ExtractSkipsRow
    \/ ExtractRow
    \/ ExtractReturns
    \/ ExtractDropped

SpecExtract == InitExtract /\ [][NextExtract]_vars

InitPerf ==
    SearchIdle /\ RunnerIdle /\ StoreIdle /\ BisectIdle /\ LaterIdle

NextPerf ==
    \/ CallSearchPerfBuilds
    \/ PerfNotCi
    \/ PerfGetCommitFails
    \/ PerfNotRollup
    \/ PerfPrPanics
    \/ PerfFetchComments
    \/ PerfCommentsFail
    \/ PerfNoComment
    \/ PerfExtract
    \/ LinearProbe
    \/ LinearFound
    \/ LinearNone
    \/ PerfReturned

SpecPerf == InitPerf /\ [][NextPerf]_vars

InitMain ==
    SearchIdle /\ RunnerIdle /\ StoreIdle /\ BisectIdle /\ LaterIdle

NextMain ==
    \/ CallMain
    \/ ConfigNoHome
    \/ ConfigTmp
    \/ ConfigNoToolchains
    \/ ConfigBounds
    \/ RunDispatch
    \/ MainReturns
    \/ MainExitsWithCode
    \/ MainReportsError
    \/ MainOver

SpecMain == InitMain /\ [][NextMain]_vars

InitWalk == SearchIdle /\ RunnerIdle /\ StoreIdle /\ BisectIdle /\ LaterIdle

\* bisect_nightlies up to the call of bisect_to_regression (main.rs:832-949)
NextWalk ==
    \/ CallWalk
    \/ BisectNightlies
    \/ NightlyPasses
    \/ NightlyRegressed
    \/ NightlyNotFound
    \/ NightlyInstallError
    \/ NoPassingNightly
    \/ VerifyEnd
    \/ NightlyBisect

SpecWalk == InitWalk /\ [][NextWalk]_vars

\* the steps of a running call of bisect
BisectStep ==
    \/ BisectCommits
    \/ BisectNightlies
    \/ NightlyPasses
    \/ NightlyRegressed
    \/ NightlyNotFound
    \/ NightlyInstallError
    \/ NoPassingNightly
    \/ VerifyEnd
    \/ NightlyBisect
    \/ NightlySearched
    \/ PrintNightly
    \/ CommitRange
    \/ WorkingCommit
    \/ BadCommit
    \/ BisectCiVia
    \/ CiVerifyStart
    \/ CiVerifyEnd
    \/ CiBisect
    \/ CiSearched
    \/ PrintCi
    \/ DoPerfSearch
    \/ PrintFinalReport
    \/ SearchStep

-----------------------------------------------------------------------------
(* Properties of the predicate search.                                       *)

\* index (zero-based) of the first Yes of s; Len(s) when there is none
RECURSIVE FirstYesFrom(_, _)
FirstYesFrom(s, i) ==
    IF i >= Len(s) THEN Len(s)
    ELSE IF s[i + 1] = Yes THEN i
    ELSE FirstYesFrom(s, i + 1)
FirstYes(s) == FirstYesFrom(s, 0)

\* the slice starts with No and ends with Yes
EndsVerified(s) == Len(s) >= 2 /\ s[1] = No /\ s[Len(s)] = Yes
\* ... and holds no No after its first Yes (the discard rule of tests::prop)
Monotone(s) ==
    EndsVerified(s) /\ \A i \in 1 .. Len(s) : i - 1 > FirstYes(s) => s[i] # No

(* C1: on a slice that starts with No, ends with Yes and holds no No after   *)
(* its first Yes, with Unknown anywhere in between and for every             *)
(* start_offset, least_satisfying does not panic and returns the smallest    *)
(* index whose element is Yes.                                               *)
C1_ReturnsFirstYes ==
    Monotone(slice) =>
        /\ spc # "panicked"
        /\ spc = "returned" => ret = FirstYes(slice)

\* a returned search over a slice with an Unknown run before and after the
\* first Yes, which is not the last element
C1_Witness ==
    /\ spc = "returned"
    /\ Monotone(slice)
    /\ Len(unknown_ranges) >= 1
    /\ ret = FirstYes(slice)
    /\ ret < Len(slice) - 1
    /\ \E i \in 1 .. ret : slice[i] = Unknown

(* C3: midpoint_stable_offset(start_offset, lo, hi) with hi - lo > 1 fails   *)
(* none of midpoint_stable's assertions and returns m with lo < m < hi; and  *)
(* every index the search is about to probe lies strictly between rm_no and  *)
(* lm_yes.                                                                   *)
C3_ProbeStrictlyBetween ==
    /\ (spc = "mid_done" /\ mid_args.right - mid_args.left > 1) =>
          /\ ~MidPanics(mid_out)
          /\ mid_args.left < mid_out.mid
          /\ mid_out.mid < mid_args.right
    /\ (spc = "loop" /\ lm_yes - rm_no > 1) =>
          ~MidPanics(MidpointStableOffset(start_offset, rm_no, lm_yes))
    /\ spc \in {"scan", "test"} => (rm_no < next /\ next < lm_yes)

\* a direct call whose bounds differ in a high bit and leave several candidates
C3_Witness ==
    /\ spc = "mid_done"
    /\ mid_args.so = 2 /\ mid_args.left = 3 /\ mid_args.right = 12
    /\ mid_out.mid > mid_args.left /\ mid_out.mid < mid_args.right

\* one-based arguments of the midpoint_stable call inside a direct call
MidLeft == mid_args.left + mid_args.so + 1
MidRight == mid_args.right + mid_args.so + 1
MidResult == mid_out.mid + mid_args.so + 1

(* C4: for left >= 1 and right - left > 1, no index strictly between left    *)
(* and right has more trailing zero bits than midpoint_stable(left, right);  *)
(* midpoint(8,16) = 12, midpoint(25,29) = 28, midpoint(33,65) = 64,          *)
(* midpoint(1,5) = 4.                                                        *)
C4_LeastDepth ==
    (spc = "mid_done" /\ MidRight - MidLeft > 1) =>
        /\ \A i \in MidLeft + 1 .. MidRight - 1 :
               trailing_zeros(i) <= trailing_zeros(MidResult)
        /\ (MidLeft = 8 /\ MidRight = 16) => MidResult = 12
        /\ (MidLeft = 25 /\ MidRight = 29) => MidResult = 28
        /\ (MidLeft = 33 /\ MidRight = 65) => MidResult = 64
        /\ (MidLeft = 1 /\ MidRight = 5) => MidResult = 4

\* the call midpoint_stable(33, 65) has returned
C4_Witness ==
    spc = "mid_done" /\ mid_args.so = 0 /\ MidLeft = 33 /\ MidRight = 65 /\ MidResult = 64

\* control is inside a call of least_satisfying, or the call is over
InSearch ==
    spc \in {"loop", "scan", "test", "match", "walk_left", "walk_right",
             "returned", "panicked"}

(* C5: during one call of least_satisfying the caller's predicate runs at    *)
(* most once for any index, the walks over a run of Unknown included, and    *)
(* the cache holds the verdict it gave.                                      *)
C5_PredicateOncePerIndex ==
    InSearch =>
        /\ \A i \in DOMAIN calls : calls[i] <= 1
        /\ \A i \in DOMAIN cache : calls[i] = 1 /\ cache[i] = At(i)

\* a walk over a run of Unknown has ended: every index of a recorded range of
\* two or more was asked for twice or more, and tested once
C5_Witness ==
    /\ spc = "returned"
    /\ \E j \in 1 .. Len(unknown_ranges) :
          /\ unknown_ranges[j][2] > unknown_ranges[j][1]
          /\ \A i \in unknown_ranges[j][1] .. unknown_ranges[j][2] : calls[i] = 1

\* the set of recorded unknown ranges
RangeSet(ranges) == {ranges[j] : j \in 1 .. Len(ranges)}

(* C6: on a slice that starts with No and ends with Yes (anything in         *)
(* between) least_satisfying never panics (no index out of bounds, no        *)
(* underflow, no failed assertion), every loop iteration that does not       *)
(* return raises rm_no, lowers lm_yes or records an unknown range not        *)
(* recorded before, and the call returns.                                    *)
C6_Terminates ==
    /\ [](EndsVerified(slice) => spc # "panicked")
    /\ [][(EndsVerified(slice) /\ spc \in {"match", "walk_right"} /\ spc' = "loop") =>
             \/ rm_no' > rm_no
             \/ lm_yes' < lm_yes
             \/ RangeSet(unknown_ranges') # RangeSet(unknown_ranges)]_vars
    /\ ((EndsVerified(slice) /\ spc = "loop") ~> (spc = "returned"))

\* a search that recorded two unknown ranges has returned
C6_Witness ==
    spc = "returned" /\ EndsVerified(slice) /\ Len(unknown_ranges) >= 2

-----------------------------------------------------------------------------
(* Properties of the test runner.                                            *)

\* the table of regression policies: the verdict is Regressed exactly when
PolicyHolds(regress, ok, ice) ==
    CASE regress = Error    -> ~ok
      [] regress = Success  -> ok
      [] regress = Ice      -> ice
      [] regress = NonIce   -> ~ice
      [] regress = NonError -> ok \/ ice

(* C7: for every regression policy, exit status and standard error the       *)
(* automatic classification is Regressed exactly when: error -> exit         *)
(* failure; success -> exit success; ice -> saw-ice; non-ice -> not saw-ice; *)
(* non-error -> exit success or saw-ice; and Baseline otherwise.             *)
C7_ClassificationTable ==
    (tpc = "classified" \/ (tpc = "done" /\ ~test_cfg.prompt)) =>
        /\ outcome \in {Regressed, Baseline}
        /\ outcome = Regressed <=>
              PolicyHolds(test_cfg.regress, success(output.code), saw_ice(output.stderr))

\* non-error on a failing run whose standard error reports an ICE
C7_Witness ==
    /\ tpc = "classified"
    /\ test_cfg.regress = NonError
    /\ ~success(output.code)
    /\ StackMarker \in output.stderr
    /\ outcome = Regressed

(* C8: when --timeout is set and the test command ends with exit code 124,   *)
(* Toolchain::test returns Regressed, under every regression policy, with    *)
(* --prompt and without.                                                     *)
C8_TimeoutIsRegressed ==
    (tpc = "done" /\ test_cfg.timeout = "Some" /\ output.code = TimeoutCode) =>
        outcome = Regressed

-----------------------------------------------------------------------------
(* Properties of the toolchain store.                                        *)

BisectorPrefix == <<"b", "i", "s", "e", "c", "t", "o", "r", "-">>

(* C9: every name rustup_name produces begins with bisector-; the guard of   *)
(* do_remove never fails; whatever sequence of installs, tests and removals  *)
(* runs, a step takes from the install root nothing but the entry named      *)
(* after the toolchain the operation works on, and the entries the store     *)
(* did not make stay.                                                        *)
C9_OnlyOwnDirsRemoved ==
    /\ [](\A t \in Toolchains : starts_with(rustup_name(t), BisectorPrefix))
    /\ [](op # "none" => starts_with(rustup_name(tc), BisectorPrefix))
    /\ [](ipc # "panicked")
    /\ [][op # "none" => fs \ fs' \subseteq {rustup_name(tc)}]_vars
    /\ [][op = "none" => fs' = fs]_vars
    /\ [](ForeignDirs \subseteq fs)

\* a removal has taken a ci toolchain's directory and left another
\* toolchain's directory and the foreign entries
C9_Witness ==
    /\ op = "remove"
    /\ ipc = "done"
    /\ result = "Ok"
    /\ tc.spec.kind = "Ci"
    /\ rustup_name(tc) \notin fs
    /\ \E t \in Toolchains : rustup_name(t) \in fs
    /\ ForeignDirs \subseteq fs

(* C10: when the target directory exists at the call and force_install is    *)
(* off, install makes no scratch directory and returns success.              *)
C10_InstallIdempotent ==
    (op = "install" /\ dest_before /\ ~store_cfg.force_install) =>
        /\ ~tmpdir
        /\ ipc = "done" => result = "Ok"

-----------------------------------------------------------------------------
(* Properties of the orchestrator. *)

\* the earliest nightly that shows the regression
FirstBadNightly ==
    CHOOSE d \in NightlyDates :
        /\ Shows(Nightly(d))
        /\ \A e \in NightlyDates : e < d => ~Shows(Nightly(e))

\* date bounds start < end around the injection, every toolchain installs,
\* the policy is error, success or ice
TwoPhaseCase ==
    /\ bounds.kind = "Dates"
    /\ bounds.start < bounds.end
    /\ ~world.alt
    /\ world.broken = NoBroken
    /\ world.regress \in {Error, Success, Ice}
    /\ ~Shows(Nightly(bounds.start))
    /\ Shows(Nightly(bounds.end))

\* the line "Regression in <sha>" of commit c
RegressionIn(c) == [kind |-> "Regression", tc |-> Ci(c, FALSE)]

\* the run ended well, the nightly phase found the earliest regressing
\* nightly, the commit phase searched from the commit of the nightly before
\* it to its own, and the one commit reported is the injection commit
TwoPhaseResult ==
    /\ bpc = "done"
    /\ nightly_result.searched[nightly_result.found + 1] = Nightly(FirstBadNightly)
    /\ ci_result.searched[1] = Ci(NightlyCommit(FirstBadNightly - 1), FALSE)
    /\ ci_result.searched[Len(ci_result.searched)] = Ci(NightlyCommit(FirstBadNightly), FALSE)
    /\ \E i \in 1 .. Len(printed) : printed[i] = RegressionIn(world.inj)
    /\ \A i \in 1 .. Len(printed) :
          (printed[i].kind = "Regression" /\ printed[i].tc.kind = "Ci")
              => printed[i] = RegressionIn(world.inj)

\* every merge commit from the one of the nightly before the earliest
\* regressing nightly to that nightly's own is younger than 167 days
RangeRetained ==
    \A c \in NightlyCommit(FirstBadNightly - 1) .. NightlyCommit(FirstBadNightly) :
        world.today - CommitDate(c) < RetentionDays

BisectOrder ==
    <<"idle", "bisect", "nightly_loop", "verify_end", "nightly_bisect",
      "nightly_search", "print_nightly", "commit_range", "working_commit",
      "bad_commit", "ci_via", "ci_verify_start", "ci_verify_end", "ci_bisect",
      "ci_search", "print_ci", "perf", "final_report", "done">>

\* how far the run is from its end: the positions still ahead and, inside
\* least_satisfying, the width of the range left and the lines of the
\* iteration left
StepsLeft ==
    (IF bpc = "failed" THEN 0
     ELSE (Len(BisectOrder) - (CHOOSE i \in 1 .. Len(BisectOrder) : BisectOrder[i] = bpc))
              * 100)
    + (CASE spc = "loop"  -> (lm_yes - rm_no) * 4 + 3
         [] spc = "scan"  -> (lm_yes - rm_no) * 4 + 2
         [] spc = "test"  -> (lm_yes - rm_no) * 4 + 1
         [] spc = "match" -> (lm_yes - rm_no) * 4
         [] OTHER -> 0)

-----------------------------------------------------------------------------
(* Properties of the downloads. *)

\* the request before the i-th one was for the .xz tarball of the same
\* component and was answered 404
AfterXz404(i) ==
    /\ i > 1
    /\ requests[i - 1] = [comp |-> requests[i].comp, ext |-> "xz"]
    /\ server[requests[i - 1]] = "404"

\* the i-th request opens a tarball: it is the first one, or the one before
\* it was for another component
OpensTarball(i) == i = 1 \/ requests[i - 1].comp # requests[i].comp

\* C11: for each tarball the .xz URL is requested first; the .gz URL is
\* requested only right after the .xz request of the same tarball was answered
\* 404, and then it is requested; an .xz request that fails in any other way
\* (other HTTP status, transport error, archive error) is the last request and
\* install fails with it; after an .xz request that succeeds the next request,
\* if any, is for another component.
C11_XzFirstGzOnlyOn404 ==
    \A i \in 1 .. Len(requests) :
        /\ OpensTarball(i) => requests[i].ext = "xz"
        /\ requests[i].ext = "gz" => AfterXz404(i)
        /\ (requests[i].ext = "xz" /\ server[requests[i]] = "404")
               => IF i = Len(requests) THEN dpc = "gz"
                  ELSE requests[i + 1] = [comp |-> requests[i].comp, ext |-> "gz"]
        /\ (requests[i].ext = "xz" /\ server[requests[i]] \in {"500", "transport", "corrupt"})
               => /\ i = Len(requests)
                  /\ dpc = "done"
                  /\ dl_result.kind = "Download"
                  /\ dl_result.url = requests[i]
        /\ (requests[i].ext = "xz" /\ server[requests[i]] = "200" /\ i < Len(requests))
               => requests[i + 1].comp # requests[i].comp

\* an install that asked for .gz after a 404, and another that stopped at an
\* .xz answered with another error
C11_Witness ==
    /\ dpc = "done"
    /\ Len(requests) >= 3
    /\ requests[Len(requests)].ext = "gz"
    /\ server[requests[Len(requests)]] = "200"
    /\ dl_result.kind = "Ok"

C11_WitnessAbort ==
    /\ dpc = "done"
    /\ Len(requests) >= 2
    /\ requests[Len(requests)].ext = "xz"
    /\ server[requests[Len(requests)]] = "500"

\* C12: when the download of a component ends in 404 (the .xz and the .gz
\* request are both answered 404), install returns InstallError::NotFound.
C12_NotFoundIsTyped ==
    (/\ dpc = "done"
     /\ requests # <<>>
     /\ requests[Len(requests)].ext = "gz"
     /\ server[requests[Len(requests)]] = "404")
        => dl_result.kind = "NotFound"

\* what the code does: the 404 of rustc alone is typed, the 404 of every other
\* component is InstallError::Download(DownloadError::NotFound), and the URL
\* carried is the .gz one, the second URL that failed
C12_OnlyRustcIsTyped ==
    (/\ dpc = "done"
     /\ requests # <<>>
     /\ requests[Len(requests)].ext = "gz"
     /\ server[requests[Len(requests)]] = "404")
        => /\ dl_result.kind = IF requests[Len(requests)].comp = "rustc"
                               THEN "NotFound" ELSE "Download"
           /\ dl_result.cause = "NotFound"
           /\ dl_result.url = requests[Len(requests)]

-----------------------------------------------------------------------------
(* Properties of the predicate handed to the search. *)

\* the toolchains the search has probed so far whose verdict was Unknown
ProbedUnknown ==
    {i \in 1 .. Len(toolchains) : calls[i - 1] > 0 /\ slice[i] = Unknown}

\* C13: in the search a probe gets the verdict Unknown from an install failure
\* only when the failure is NotFound: a toolchain probed with the verdict
\* Unknown failed to install with NotFound.
C13_OnlyNotFoundIsUnknown ==
    bpc \in {"nightly_search", "ci_search"} =>
        \A i \in ProbedUnknown : install_and_test(toolchains[i]).err = "NotFound"

\* what the code does: every install error of a probe is the verdict Unknown,
\* and the search goes on
C13_EveryInstallErrorIsUnknown ==
    bpc \in {"nightly_search", "ci_search"} =>
        /\ berr.msg = "None"
        /\ \A i \in 1 .. Len(toolchains) :
              calls[i - 1] > 0 => (slice[i] = Unknown <=> ~install_and_test(toolchains[i]).ok)

-----------------------------------------------------------------------------
(* Properties of Bounds::from_args. *)

\* the kinds of the two bounds after translate_tags
TranslatedKinds == {translated.start.kind, translated.end.kind}

\* the Bounds from_args can return: dates in Dates and SearchNightlyBackwards,
\* commit identifiers in Commits
WellTyped(b) ==
    CASE b.kind = "SearchNightlyBackwards" -> b.end \in BoundDates
      [] b.kind = "Dates" -> b.start \in BoundDates /\ b.end \in BoundDates
      [] b.kind = "Commits" -> Len(b.start) > 0 /\ Len(b.end) > 0
      [] OTHER -> FALSE

\* C14: from_args never returns bounds from a commit and a date: when after
\* translate_tags one bound is a Commit and the other a Date it returns the
\* error that names the start and the end bound as given; what it returns
\* otherwise is an error or SearchNightlyBackwards{end date}, Dates{start date,
\* end date} or Commits{start commit, end commit}, dates only from bounds
\* without a commit, commits only from bounds without a date or, with
\* --by-commit, from dates alone.
C14_NoMixedBounds ==
    apc = "done" /\ translated.ok =>
        /\ TranslatedKinds = {"Commit", "Date"}
              => fa_result = [kind |-> "Err",
                              msg |-> "cannot take different types of bounds for start/end",
                              names |-> <<args.start, args.end>>]
        /\ fa_result.kind # "Err"
              => /\ WellTyped(fa_result)
                 /\ fa_result.kind \in {"SearchNightlyBackwards", "Dates"}
                       => "Commit" \notin TranslatedKinds
                 /\ fa_result.kind = "Commits"
                       => \/ "Date" \notin TranslatedKinds
                          \/ args.by_commit /\ "Commit" \notin TranslatedKinds

\* a commit start and a date end were refused
C14_Witness ==
    /\ apc = "done"
    /\ translated.start.kind = "Commit"
    /\ translated.end.kind = "Date"
    /\ fa_result.kind = "Err"

\* the dates among the bounds after translate_tags: given, or resolved from a tag
GivenDates ==
    {b.date : b \in {x \in {translated.start, translated.end} : x.kind = "Date"}}

\* start and end are both dates, and start is later than end
StartAfterEnd ==
    /\ translated.start.kind = "Date"
    /\ translated.end.kind = "Date"
    /\ translated.start.date > translated.end.date

\* C15: when from_args succeeds every date given (or resolved from a tag) is on
\* or before today and start <= end.  A date after today is rejected; a start
\* later than end is rejected, and when neither date is after today the message
\* names both dates; a date up to today, today included, is never rejected as
\* a date after today, and two dates in order are never rejected for their
\* order.
C15_DatesChecked ==
    apc = "done" /\ translated.ok =>
        /\ fa_result.kind # "Err"
              => /\ \A d \in GivenDates : d <= env.today
                 /\ ~StartAfterEnd
        /\ (\E d \in GivenDates : d > env.today) => fa_result.kind = "Err"
        /\ StartAfterEnd => fa_result.kind = "Err"
        /\ (StartAfterEnd /\ \A d \in GivenDates : d <= env.today)
              => fa_result = [kind |-> "Err", msg |-> "end should be after start",
                              names |-> <<translated.start.date, translated.end.date>>]
        /\ (\A d \in GivenDates : d <= env.today)
              => ~(fa_result.kind = "Err"
                   /\ fa_result.msg = "date should be on or before current date")
        /\ (TranslatedKinds = {"Date"} /\ ~StartAfterEnd)
              => ~(fa_result.kind = "Err" /\ fa_result.msg = "end should be after start")

\* an end date equal to today was accepted
C15_Witness ==
    /\ apc = "done"
    /\ args.start.kind = "Date"
    /\ args.end = DateBound(env.today)
    /\ fa_result.kind = "Dates"
    /\ fa_result.end = env.today

\* an end date one day after today was rejected
C15_WitnessTomorrow ==
    /\ apc = "done"
    /\ args.start.kind = "Date"
    /\ args.end = DateBound(env.today + 1)
    /\ fa_result.kind = "Err"
    /\ fa_result.names = <<"end", env.today + 1, env.today>>

\* a bound as given is absent, a date, or a release tag
DateLikeGiven(b) == b.kind \in {"None", "Date"} \/ (b.kind = "Commit" /\ b.commit \in Tags)

\* what translate_tags is to return for a bound as given
TagTranslation(b) ==
    IF DateLikeGiven(args.start) /\ DateLikeGiven(args.end)
         /\ b.kind = "Commit" /\ b.commit \in Tags
    THEN DateBound(env.merge_base[b.commit].date)
    ELSE b

\* C16: translate_tags turns a tag into the Date of its merge base exactly
\* when both bounds are date-like (absent, a Date or a tag); when one bound is
\* a commit identifier that is no tag both bounds come back as given.
C16_TagsTranslatedIffDateLike ==
    apc \in {"match", "check", "done"} /\ translated.ok =>
        /\ translated.start = TagTranslation(args.start)
        /\ translated.end = TagTranslation(args.end)

\* a tag start with a date end was resolved to the date of its merge base
C16_Witness ==
    /\ apc = "match"
    /\ args.start = CommitBound(<<"1", ".", "6", "2">>)
    /\ args.end.kind = "Date"
    /\ translated.start = DateBound(env.merge_base[<<"1", ".", "6", "2">>].date)
    /\ translated.start.date # 1

\* a tag end with a commit start stayed a commit
C16_WitnessUnchanged ==
    /\ apc = "match"
    /\ args.start.kind = "Commit" /\ args.start.commit \in Shas
    /\ args.end = CommitBound(<<"1", ".", "7", "0">>)
    /\ translated.end = args.end

\* C17: a missing end defaults to the newest nightly, a missing start with an
\* end commit to the epoch commit.
C17_MissingEndIsLatestNightly ==
    (apc = "done" /\ fa_result.kind \in {"SearchNightlyBackwards", "Dates"}
     /\ args.end = NoBound)
        => fa_result.end = env.latest.date

\* what the code does: without bounds the end is the installed nightly, the
\* latest nightly only when rustup has none, and there is no start; with a
\* start date alone the end is the latest nightly; with a start commit alone
\* the end is origin/master; with an end commit alone the start is the epoch
\* commit
C17_DefaultsOfTheCode ==
    apc = "done" /\ fa_result.kind # "Err" =>
        /\ (translated.start = NoBound /\ translated.end = NoBound)
              => /\ fa_result.kind = "SearchNightlyBackwards"
                 /\ fa_result.end = IF env.installed # {}
                                    THEN CHOOSE d \in env.installed : TRUE
                                    ELSE env.latest.date
        /\ (translated.start.kind = "Date" /\ translated.end = NoBound /\ ~args.by_commit)
              => fa_result = [kind |-> "Dates", start |-> translated.start.date,
                              end |-> env.latest.date]
        /\ (translated.start.kind = "Commit" /\ translated.end = NoBound)
              => fa_result = [kind |-> "Commits", start |-> translated.start.commit,
                              end |-> OriginMaster]
        /\ (translated.start = NoBound /\ translated.end.kind = "Commit")
              => fa_result = [kind |-> "Commits", start |-> EPOCH_COMMIT,
                              end |-> translated.end.commit]
        /\ (translated.start = NoBound /\ translated.end.kind = "Date")
              => fa_result = [kind |-> "SearchNightlyBackwards",
                              end |-> translated.end.date]

-----------------------------------------------------------------------------
(* Properties of NightlyFinderIter. *)

\* the days between the start date and the first twelve dates (main.rs:1306)
FirstOffsets == <<2, 4, 6, 8, 15, 22, 29, 36, 43, 50, 64, 78>>

\* the date handed out before the i-th one
DateBefore(i) == IF i = 1 THEN finder.start_date ELSE yielded[i - 1]

\* C18: the dates NightlyFinderIter yields go strictly down from the start
\* date and there is always a next one; a date is 2 days before the one before
\* it while that one is less than 7 days from the start, 7 days while it is
\* less than 49 days, 14 days after that; the first twelve dates are 2, 4, 6,
\* 8, 15, 22, 29, 36, 43, 50, 64, 78 days before the start.
C18_NightlyFinderStrides ==
    \A i \in 1 .. Len(yielded) :
        /\ yielded[i] < DateBefore(i)
        /\ DateBefore(i) - yielded[i] =
              IF finder.start_date - DateBefore(i) < 7 THEN 2
              ELSE IF finder.start_date - DateBefore(i) < 49 THEN 7
              ELSE 14
        /\ i <= Len(FirstOffsets) => finder.start_date - yielded[i] = FirstOffsets[i]
        /\ finder.current_date = yielded[Len(yielded)]

\* twelve dates were taken, the last one 78 days before the start
C18_Witness ==
    /\ Len(yielded) >= 12
    /\ finder.start_date - yielded[12] = 78

-----------------------------------------------------------------------------
(* Properties of the nightly walk and of the endpoint checks. *)

\* the nightly the walk stands at installs and evaluates to the verdict
WalkEvaluates(verdict) ==
    /\ bpc = "nightly_loop"
    /\ nightly_date > end_at
    /\ install_and_test(Nightly(nightly_date)).ok
    /\ install_and_test(Nightly(nightly_date)).r = verdict

\* the start date was given and evaluates Yes
StartRegresses ==
    /\ bounds.kind = "Dates"
    /\ install_and_test(Nightly(bounds.start)).ok
    /\ install_and_test(Nightly(bounds.start)).r = Yes

\* no search has been run: least_satisfying was never entered
NeverSearched ==
    /\ spc = "idle"
    /\ toolchains = <<>>
    /\ nightly_result.searched = <<>>
    /\ ci_result.searched = <<>>

C19_WalkState ==
    /\ bpc = "nightly_loop" => first_success = {}
    /\ \A d \in first_success :
          /\ d = nightly_date
          /\ install_and_test(Nightly(d)).ok
          /\ install_and_test(Nightly(d)).r = No
    /\ (StartRegresses /\ bpc \notin {"idle", "bisect", "nightly_loop"})
          => /\ bpc = "failed"
             /\ NeverSearched
             /\ ~world.alt
                   => berr = [msg |-> "the start of the range must not reproduce the regression",
                              at |-> <<Nightly(bounds.start)>>]

C19_WalkStep ==
    /\ WalkEvaluates(No) => first_success' = {nightly_date} /\ bpc' = "verify_end"
    /\ (WalkEvaluates(Yes) /\ bounds.kind = "Dates") => bpc' = "failed"
    /\ (WalkEvaluates(Yes) /\ bounds.kind # "Dates")
          => bpc' = "nightly_loop" /\ first_success' = {} /\ last_failure' = nightly_date

\* C19: in the walk over the nightlies no date is first_success while the walk
\* goes on; a date that evaluates No ends the walk at once and is
\* first_success, a date that evaluates Yes is last_failure and the walk goes on;
\* when the start was given and evaluates Yes the run fails and
\* least_satisfying is never entered; the error names the start (with --alt
\* the run fails before the walk, main.rs:832-834).
C19_FirstNoEndsWalk == []C19_WalkState /\ [][C19_WalkStep]_vars

\* a walk without a given start went back and ended at its first No
C19_Witness ==
    /\ bpc = "verify_end"
    /\ bounds.kind = "SearchNightlyBackwards"
    /\ first_success = {nightly_date}
    /\ nightly_date < bounds.end

\* a given start that evaluates Yes ended the run
C19_WitnessAbort ==
    /\ bpc = "failed"
    /\ StartRegresses
    /\ bounds.start < bounds.end

\* the toolchain installs and evaluates to the verdict
Evaluates(t, verdict) == install_and_test(t).ok /\ install_and_test(t).r = verdict

EndpointErrors ==
    {"the end of the range does not reproduce the regression",
     "the commit at the start of the range includes the regression",
     "the commit at the end of the range does not reproduce the regression"}

\* C20: least_satisfying is at work only inside the search of the nightly
\* phase or of the commit phase, on a range whose first toolchain evaluates No
\* and whose last toolchain evaluates Yes: in the nightly phase first_success
\* and last_failure, in the commit phase the first commit that was kept and
\* the last commit.  A run
\* that fails on an endpoint names that endpoint in its error, the endpoint
\* does evaluate as the error says, and the search of that phase was not
\* entered.
C20_SearchAfterEndpointTests ==
    /\ spc # "idle" => bpc \in {"nightly_search", "ci_search"}
    /\ bpc \in {"nightly_bisect", "ci_bisect"} => spc = "idle"
    /\ bpc \in {"nightly_search", "ci_search"}
          => /\ toolchains # <<>>
             /\ Evaluates(toolchains[1], No)
             /\ Evaluates(toolchains[Len(toolchains)], Yes)
    /\ bpc = "nightly_search"
          => /\ toolchains[1] = Nightly(CHOOSE d \in first_success : TRUE)
             /\ toolchains[Len(toolchains)] = Nightly(last_failure)
    /\ bpc = "ci_search"
          => /\ toolchains[1].kind = "Ci"
             /\ toolchains[1].commit >= working_commit
             /\ toolchains[Len(toolchains)] = Ci(bad_commit, world.alt)
    /\ (bpc = "failed" /\ berr.msg \in EndpointErrors)
          => /\ spc = "idle"
             /\ CASE berr.msg = "the end of the range does not reproduce the regression" ->
                       /\ berr.at = <<Nightly(last_failure)>>
                       /\ Evaluates(Nightly(last_failure), No)
                       /\ NeverSearched
                  [] berr.msg = "the commit at the start of the range includes the regression" ->
                       /\ berr.at = <<toolchains[1]>>
                       /\ Evaluates(toolchains[1], Yes)
                       /\ ci_result.searched = <<>>
                  [] OTHER ->
                       /\ berr.at = <<toolchains[Len(toolchains)]>>
                       /\ Evaluates(toolchains[Len(toolchains)], No)
                       /\ ci_result.searched = <<>>

\* the search of the commit phase is at work, after the search of the nightly
\* phase
C20_Witness ==
    /\ bpc = "ci_search"
    /\ spc = "test"
    /\ nightly_result.searched # <<>>
    /\ Len(toolchains) >= 3

\* the end of the nightly range was tested again and did not regress
C20_WitnessEnd ==
    /\ bpc = "failed"
    /\ berr.msg = "the end of the range does not reproduce the regression"

-----------------------------------------------------------------------------
(* Properties of bisect_ci_via and the repository access (SpecRepo).        *)

\* the dates along a sequence of commits of the history never go back
DatesNeverGoBack(cs) ==
    \A i \in 1 .. Len(cs), j \in 1 .. Len(cs) :
        i < j => history[cs[i]].date <= history[cs[j]].date

\* C21: the commits handed to bisect_ci_in_commits, and so to the predicate
\* search of the commit phase, are in non-decreasing date order; a listing
\* whose dates go back is never handed on: the run panics on the assertion
\* and no toolchain has been installed by then.
C21_HandedCommitsChronological ==
    /\ handed # <<>> => handed = listed.commits /\ DatesNeverGoBack(handed)
    /\ rpc \in {"in_commits", "probing"} => handed # <<>>
    /\ probed # {} => rpc = "probing" /\ DatesNeverGoBack(handed)
    /\ rpc = "panicked" => probed = {} /\ handed = <<>>
    /\ (rpc = "panicked" /\ listed.kind = "Ok") => ~DatesNeverGoBack(listed.commits)

\* the assertion has stopped a listing whose dates go back
C21_Witness ==
    /\ rpc = "panicked"
    /\ listed.kind = "Ok"
    /\ Len(listed.commits) >= 2

\* a listing of three commits or more was handed on and a toolchain installed
C21_WitnessHanded ==
    /\ rpc = "probing"
    /\ Len(handed) >= 3
    /\ probed # {}


\* the commits of the history from a to b that bors wrote, oldest first
BorsBetween(a, b) ==
    SelectSeq([j \in 1 .. (b + 1 - a) |-> a + j - 1],
              LAMBDA c : history[c].by = BORS_AUTHOR)

\* the local clone has been asked for the commits from a bors commit to a
\* bors commit that is not before it
LocalListed ==
    /\ rpc = "listed"
    /\ query.access = "Checkout"
    /\ query.start <= query.end

\* two commits in a row between a and b that bors did not write
TwoInARow(a, b) ==
    \E c \in a .. b - 1 :
        history[c].by # BORS_AUTHOR /\ history[c + 1].by # BORS_AUTHOR

\* C22: on the local clone commits(a, b) is the sequence of the bors commits
\* of the first-parent chain from a to b, both included, oldest first, the
\* commits of others on the chain being skipped.
C22_LocalCommitsAreTheBorsChain ==
    LocalListed => listed = CommitsOk(BorsBetween(query.start, query.end))

\* C22, what get_commits_between returns: the bors commits from a to b when a
\* is before b, the commit after a is by bors and no two commits in a row are
\* by others; an error or a panic on any other chain, a = b included.
C22_WhatTheWalkReturns ==
    LocalListed =>
        IF /\ query.start < query.end
           /\ history[query.start + 1].by = BORS_AUTHOR
           /\ ~TwoInARow(query.start, query.end)
        THEN listed = CommitsOk(BorsBetween(query.start, query.end))
        ELSE listed.kind \in {"Err", "Panic"}

\* the walk skipped a commit of another author and returned the bors commits
C22_WitnessSkipped ==
    /\ LocalListed
    /\ listed.kind = "Ok"
    /\ Len(listed.commits) < query.end + 1 - query.start

\* the commit after a is not by bors and the walk failed
C22_WitnessFailed ==
    /\ LocalListed
    /\ query.start + 1 < query.end
    /\ history[query.start + 1].by # BORS_AUTHOR
    /\ ~TwoInARow(query.start, query.end)
    /\ listed.kind = "Err"

\* C23: for the same history and the same pair of commits the two accessors
\* return the same sequence of commits.
C23_AccessorsAgree ==
    rpc = "listed" =>
        access_commits("Checkout", history, query.start, query.end)
            = access_commits("Github", history, query.start, query.end)

\* C23, where the accessors do agree: whenever the local clone returns a
\* sequence and no bors commit from start to end is more than a day older than
\* start, GitHub returns the same sequence.
C23_AgreeWhereTheWalkSucceeds ==
    (/\ rpc = "listed"
     /\ git_get_commits_between(history, query.start, query.end).kind = "Ok"
     /\ \A c \in query.start .. query.end :
            history[c].by = BORS_AUTHOR => history[c].date >= history[query.start].date - 1)
    => github_commits(history, query.start, query.end)
           = git_get_commits_between(history, query.start, query.end)

\* start = end: GitHub returns the one commit, the local clone an error
C23_WitnessSameCommit ==
    /\ rpc = "listed"
    /\ query.start = query.end
    /\ github_commits(history, query.start, query.end) = CommitsOk(<<query.start>>)
    /\ git_get_commits_between(history, query.start, query.end).kind = "Err"

\* both accessors return the same three commits or more
C23_WitnessAgree ==
    /\ rpc = "listed"
    /\ listed.kind = "Ok"
    /\ Len(listed.commits) >= 3
    /\ github_commits(history, query.start, query.end)
           = git_get_commits_between(history, query.start, query.end)

-----------------------------------------------------------------------------
(* Properties of extract_perf_builds (SpecExtract).                         *)

\* the line is a row of the table: it begins with |#
TableRow(line) == Len(line) >= 2 /\ line[1] = "|" /\ line[2] = "#"

\* 40 hexadecimal digits start at position p of the line
HexWindow(line, p) ==
    /\ p >= 1
    /\ p + 39 <= Len(line)
    /\ \A k \in p .. p + 39 :
           line[k] \in {"0", "1", "2", "3", "4", "5", "6", "7", "8", "9",
                        "a", "b", "c", "d", "e", "f", "A", "B", "C", "D", "E", "F"}

HoldsSha(line) == \E p \in 1 .. Len(line) : HexWindow(line, p)

\* the description the row is to get: the column of the PR number, then ": "
\* and the second column unless there is none or the sha is in it
RowDescription(line, sha) ==
    LET columns == split(line, "|")
    IN  IF Len(columns) >= 3 /\ ~contains_str(columns[3], sha)
        THEN columns[2] \o <<":", " ">> \o columns[3]
        ELSE columns[2]

\* what the vectors hold at any time
C26_Vectors ==
    /\ Len(builds) = Len(descriptions)
    /\ \A j \in 1 .. Len(builds) : HexWindow(builds[j], 1) /\ Len(builds[j]) = 40
    /\ xpc = "returned" =>
        /\ Len(builds) = Cardinality({j \in 1 .. Len(lines(body)) :
                                         /\ TableRow(lines(body)[j])
                                         /\ HoldsSha(lines(body)[j])})
        /\ body = RowV1 =>
            /\ builds = <<ShaA>>
            /\ descriptions = <<<<"#", "1", "1", "3", "0", "0", "9">>>>
        /\ body = RowV2 =>
            /\ builds = <<ShaB>>
            /\ descriptions = <<<<"#", "1", "1", "2", "2", "0", "7", ":", " ",
                                  "A", "d", "d", " ", "t", "e", "s", "t", "s">>>>

\* what the loop does with one line
C26_Line ==
    lines_left' # lines_left /\ xpc = "loop" =>
        /\ lines_left' = Tail(lines_left)
        /\ IF TableRow(Head(lines_left)) /\ HoldsSha(Head(lines_left))
           THEN \E p \in 1 .. Len(Head(lines_left)) :
                    /\ HexWindow(Head(lines_left), p)
                    /\ \A q \in p + 40 .. Len(Head(lines_left)) :
                           ~HexWindow(Head(lines_left), q)
                    /\ builds' = Append(builds, SubSeq(Head(lines_left), p, p + 39))
                    /\ descriptions' =
                           Append(descriptions,
                                  RowDescription(Head(lines_left),
                                                 SubSeq(Head(lines_left), p, p + 39)))
           ELSE builds' = builds /\ descriptions' = descriptions

\* C26: extract_perf_builds looks only at the lines that begin with |#; each
\* such line that holds 40 hexadecimal digits adds, in the order of the rows,
\* the last such match of the line to builds and to descriptions the column of
\* the PR number, followed by ": " and the second column unless that column
\* holds the sha; other lines add nothing, and the two vectors have the same
\* length at any time.
C26_RowsExtracted == []C26_Vectors /\ [][C26_Line]_vars

\* a row whose title holds another sha gave the sha of the last column and a
\* description with the title
C26_Witness ==
    /\ xpc = "returned"
    /\ body = join_lines(<<RowHeader, RowShaInTitle, RowNoSha>>)
    /\ builds = <<ShaB>>
    /\ Len(descriptions[1]) > 40

\* a row of the first format: the description is the PR number alone
C26_WitnessV1 ==
    /\ xpc = "returned"
    /\ body = join_lines(<<RowOutside, RowV1, RowV2>>)
    /\ builds = <<ShaA, ShaB>>
    /\ Len(descriptions[1]) = 7

-----------------------------------------------------------------------------
(* Properties of search_perf_builds and linear_in_commits (SpecPerf).       *)

\* the message begins with "Auto merge of #"
BeginsAutoMerge(summary) ==
    /\ Len(summary) >= 15
    /\ SubSeq(summary, 1, 15) = AutoMergeOf

\* the message holds "Rollup of"
HoldsRollupOf(summary) ==
    \E i \in 1 .. Len(summary) - 8 : SubSeq(summary, i, i + 8) = RollupOf

\* C24: the comments of a pull request are fetched, and the perf builds
\* scanned, only for a commit message that both begins with "Auto merge of #"
\* and holds "Rollup of"; a message failing either is rejected as not a rollup.
C24_RefinementOnlyForRollups ==
    /\ fetched # <<>> =>
        BeginsAutoMerge(perf_in.summary) /\ HoldsRollupOf(perf_in.summary)
    /\ (/\ ppc = "done"
        /\ perf_in.kind = "Ci"
        /\ perf_in.commit_ok
        /\ ~(BeginsAutoMerge(perf_in.summary) /\ HoldsRollupOf(perf_in.summary)))
       => perf_out = PerfErr("not a rollup pr")

\* C24, what the code does: a message is rejected as not a rollup, with no
\* comment fetched, only when it has neither mark; with one mark or both the
\* comments are asked for, unless the message has fewer than four words.
C24_RejectedOnlyWithoutBothMarks ==
    /\ fetched # <<>> =>
        BeginsAutoMerge(perf_in.summary) \/ HoldsRollupOf(perf_in.summary)
    /\ perf_out = PerfErr("not a rollup pr") =>
        /\ ~BeginsAutoMerge(perf_in.summary)
        /\ ~HoldsRollupOf(perf_in.summary)
        /\ fetched = <<>>
    /\ (/\ ppc = "done"
        /\ perf_in.kind = "Ci"
        /\ perf_in.commit_ok
        /\ BeginsAutoMerge(perf_in.summary) \/ HoldsRollupOf(perf_in.summary))
       => fetched # <<>> \/ perf_out.kind = "Panic"

\* the comments of pull request 8 were fetched for the merge of a pull
\* request that is no rollup
C24_WitnessOrdinaryMerge ==
    /\ perf_in.summary = SummaryMerge
    /\ fetched = <<<<"8">>>>
    /\ perf_out = PerfErr("couldn't find perf build comment")

\* the builds a scan has passed: none of them was Yes
PassedOver ==
    \A j \in 1 .. Len(perf_probed) - 1 : perf_in.outcomes[perf_probed[j]] # "Yes"

\* C25: linear_in_commits installs and tests the builds in the order of the
\* list and returns the least index whose verdict is Yes; a No or a failed
\* install does not end the scan, no build after the one returned is probed,
\* and without a Yes the result is an error.
C25_LinearScan ==
    /\ perf_probed = [j \in 1 .. Len(perf_probed) |-> j]
    /\ Len(perf_probed) <= Len(perf_builds)
    /\ PassedOver
    /\ perf_out.kind = "Ok" =>
        /\ perf_in.outcomes[perf_out.found + 1] = "Yes"
        /\ \A j \in 1 .. perf_out.found : perf_in.outcomes[j] # "Yes"
        /\ Len(perf_probed) = perf_out.found + 1
    /\ perf_out = PerfErr("none of the toolchains satisfied the predicate") =>
        /\ Len(perf_probed) = Len(perf_builds)
        /\ \A j \in 1 .. Len(perf_builds) : perf_in.outcomes[j] # "Yes"
    /\ (ppc = "done" /\ perf_probed # <<>>) =>
        \/ perf_out.kind = "Ok"
        \/ perf_out = PerfErr("none of the toolchains satisfied the predicate")

\* the third build was returned after a failed install and a No
C25_Witness ==
    /\ perf_out.kind = "Ok"
    /\ perf_out.found = 2
    /\ perf_in.outcomes[1] = "InstallError"
    /\ perf_in.outcomes[2] = "No"
    /\ perf_probed = <<1, 2, 3>>

\* the first build was returned and the others were not probed
C25_WitnessFirst ==
    /\ perf_out.kind = "Ok"
    /\ perf_out.found = 0
    /\ Len(perf_builds) = 3
    /\ perf_probed = <<1>>

\* no build was Yes
C25_WitnessNone ==
    /\ perf_out = PerfErr("none of the toolchains satisfied the predicate")
    /\ perf_probed = <<1, 2, 3>>

-----------------------------------------------------------------------------
(* Properties of remove_toolchain under --preserve (SpecStore).             *)

\* a link of the install root is one of its entries
LinksAreEntries == links \subseteq fs

\* what remove_toolchain does under --preserve
C27_Cleanup ==
    (ipc = "remove_toolchain" /\ store_cfg.preserve /\ ipc' # ipc) =>
        IF rustup_name(tc) \in links
        THEN /\ fs' = fs \ {rustup_name(tc)}
             /\ links' = links \ {rustup_name(tc)}
             /\ OwnNightly \in fs'
        ELSE fs' = fs /\ links' = links

C27_WitnessKept ==
    /\ ipc = "done"
    /\ op = "remove_toolchain"
    /\ store_cfg.preserve
    /\ dest_before
    /\ rustup_name(tc) \in fs
    /\ rustup_name(tc) \notin links

-----------------------------------------------------------------------------
(* Properties of main, run and Config::from_args (SpecMain).                *)

\* the errors of the bisection that the run can end with
DomainErrors ==
    BoundErrors \cup {"could not find",
                      "the start of the range must not reproduce the regression",
                      "the end of the range does not reproduce the regression"}

\* C28: a bisection that succeeds ends the process with status 0; a domain
\* error (bad bounds, a missing nightly, an endpoint that fails its check) ends
\* it with status 1 after an ERROR: line; an ExitError(code) ends it with that
\* code.
C28_ExitStatus ==
    /\ mpc # "exited" => exit_status = -1 /\ stderr_error = "None"
    /\ mpc = "exited" =>
        /\ run_result.kind = "Ok" => exit_status = 0 /\ stderr_error = "None"
        /\ run_result.kind = "Err" => exit_status = 1 /\ stderr_error = run_result.msg
        /\ run_result.kind = "ExitError" =>
            exit_status = run_result.code /\ stderr_error = "None"
        /\ (main_in.home.known /\ main_in.home.toolchains /\ main_in.bounds.kind = "Err"
            /\ (main_in.home.tmp \/ main_in.home.create_ok)) =>
            exit_status = 1 /\ stderr_error = main_in.bounds.msg
        /\ (installed_any /\ main_in.outcome.kind = "Err") =>
            exit_status = 1 /\ stderr_error = main_in.outcome.msg
        /\ (installed_any /\ main_in.outcome.kind = "Ok") => exit_status = 0

\* the end of the range did not reproduce the regression: ERROR: and status 1
C28_Witness ==
    /\ mpc = "exited"
    /\ installed_any
    /\ stderr_error = "the end of the range does not reproduce the regression"
    /\ stderr_error \in DomainErrors
    /\ exit_status = 1

\* a bisection that succeeded: status 0
C28_WitnessSuccess ==
    /\ mpc = "exited"
    /\ installed_any
    /\ ~main_in.install
    /\ run_result = RunOk
    /\ exit_status = 0

\* an ExitError ends the process with its code
C28_WitnessCode ==
    /\ mpc = "exited"
    /\ run_result = RunExit(3)
    /\ exit_status = 3

\* the resolution of the bounds has failed with one of its bound errors
BoundErrorReported ==
    /\ mpc = "exited"
    /\ main_in.bounds.kind = "Err"
    /\ main_in.bounds.msg \in BoundErrors
    /\ stderr_error = main_in.bounds.msg

\* C30: when the resolution of the bounds fails the error is reported and the
\* run has had no side effect: no directory was made and no toolchain was
\* installed.
C30_BoundErrorNoSideEffect ==
    BoundErrorReported => created = {} /\ ~installed_any

\* C30, what the code does: before the bounds are resolved <rustup home>/tmp
\* has been made if it was not there, and a tag looked up through a checkout
\* that is not there has cloned the repository; no toolchain is installed.
C30_OnlyTmpAndCloneBeforeBounds ==
    BoundErrorReported =>
        /\ ~installed_any
        /\ exit_status = 1
        /\ "tmp" \in created <=> ~main_in.home.tmp
        /\ "rust.git" \in created <=> (main_in.bounds.accessed /\ main_in.checkout_missing)
        /\ created \subseteq {"tmp", "rust.git"}

\* a future date was reported after <rustup home>/tmp was made
C30_WitnessTmpMade ==
    /\ BoundErrorReported
    /\ stderr_error = "date should be on or before current date"
    /\ created = {"tmp"}


\* how often the toolchain was installed and tested in the phase so far
EvaluatedTimes(t) == Cardinality({i \in DOMAIN evaluated : evaluated[i] = t})

\* the toolchain that ends the range of the phase: the nightly end
\* verification tests (main.rs:922-939), the last commit of the commit phase
\* (main.rs:1096-1105)
EndOfRange(t) ==
    IF t.kind = "Nightly" THEN t = Nightly(last_failure)
    ELSE toolchains # <<>> /\ t = toolchains[Len(toolchains)]

(* C29 as stated: within one phase, the walk, the verification of the        *)
(* endpoints, the search and the printing of the result counted, no          *)
(* toolchain is installed and tested more than once.                         *)
C29_EachToolchainOncePerPhase ==
    \A i, j \in DOMAIN evaluated : evaluated[i] = evaluated[j] => i = j

(* C29, what the code does while at most one nightly is missing (for more    *)
(* missing nightlies see C35): only the toolchain that ends the range of     *)
(* the phase is installed and tested more than once (by the end              *)
(* verification after the walk or the start verification, and by             *)
(* print_results when it is the toolchain found), and it at most three       *)
(* times; every other toolchain at most once.                                *)
C29_OnlyTheEndIsEvaluatedAgain ==
    \A i \in DOMAIN evaluated :
        /\ EvaluatedTimes(evaluated[i]) <= 3
        /\ EvaluatedTimes(evaluated[i]) > 1 => EndOfRange(evaluated[i])

\* a nightly phase is over in which the walk, the end verification and
\* print_results tested the end, and the search another nightly once
C29_Witness ==
    /\ bpc = "commit_range"
    /\ \E i, j \in DOMAIN evaluated :
          /\ EvaluatedTimes(evaluated[i]) = 3
          /\ EvaluatedTimes(evaluated[j]) = 1
          /\ \E k \in DOMAIN toolchains : toolchains[k] = evaluated[j] /\ calls[k - 1] = 1

\* a commit phase is over in which the search tested commits, once each, and
\* the last commit was tested by the end verification and by print_results
C29_WitnessCommits ==
    /\ bpc = "perf"
    /\ Len(evaluated) > 3
    /\ EvaluatedTimes(toolchains[Len(toolchains)]) = 2

\* absolute bounds and probe of a direct call: indices into the whole
\* sequence the slice is cut from (least_satisfying.rs:5-6)
AbsLeft == mid_args.so + mid_args.left
AbsRight == mid_args.so + mid_args.right
AbsProbe == mid_args.so + mid_out.mid

\* the absolute probe of the call midpoint_stable_offset(so, a - so, b - so)
AbsProbeOf(so, a, b) == so + MidpointStableOffset(so, a - so, b - so).mid

(* C31: the probe is stable across invocations.  For a call with absolute    *)
(* bounds (a, b) and absolute probe m, the call with the same absolute      *)
(* bounds under any other start_offset probes m (the absolute probe depends  *)
(* on the absolute bounds only), and every call whose absolute bounds        *)
(* (a', b') lie within (a, b) and still strictly contain m probes m again.   *)
C31_ProbeStableAcrossCalls ==
    (spc = "mid_done" /\ mid_args.right - mid_args.left > 1) =>
        /\ \A so \in 0 .. MaxOffset :
               so <= AbsLeft => AbsProbeOf(so, AbsLeft, AbsRight) = AbsProbe
        /\ \A a \in AbsLeft .. AbsProbe - 1, b \in AbsProbe + 1 .. AbsRight :
               AbsProbeOf(mid_args.so, a, b) = AbsProbe

\* the call on the absolute range (6, 41) probed 31; the narrower range
\* (20, 33) seen through another start_offset probes 31 as well, where the
\* arithmetic midpoints are 23 and 26
C31_Witness ==
    /\ spc = "mid_done"
    /\ mid_args = [so |-> 1, left |-> 5, right |-> 40]
    /\ AbsProbe = 31
    /\ AbsProbeOf(3, 20, 33) = 31
    /\ AbsProbeOf(0, 6, 41) = 31

\* least_satisfying was called on the one-element slice [No]
OnSingleNo == InSearch /\ slice = <<No>>

(* C32 as stated: on a sequence of the single element No least_satisfying    *)
(* returns the final index, 0, through the exit rm_no + 1 == lm_yes: the     *)
(* call does not panic, and what it returns is the last index.               *)
C32_SingleNoReturnsFinalIndex ==
    OnSingleNo =>
        /\ spc # "panicked"
        /\ spc = "returned" => ret = Len(slice) - 1

(* C32, what the code does: on a one-element slice rm_no = lm_yes = 0, the   *)
(* exit rm_no + 1 == lm_yes is not taken, and midpoint_stable fails its      *)
(* assertion right - left > 1; the call panics before the predicate ran.     *)
C32_SingleElementPanics ==
    (InSearch /\ Len(slice) = 1) =>
        /\ spc \in {"loop", "panicked"}
        /\ rm_no = 0 /\ lm_yes = 0
        /\ ~MidpointStableOffset(start_offset, rm_no, lm_yes).a0
        /\ \A i \in DOMAIN calls : calls[i] = 0

\* the call on [No] has panicked
C32_WitnessPanicked == OnSingleNo /\ spc = "panicked" /\ start_offset = 0

\* one more turn of the loop of the walk (main.rs:868-918)
WalkTurn ==
    \/ NightlyPasses
    \/ NightlyRegressed
    \/ NightlyNotFound
    \/ NightlyInstallError
    \/ NoPassingNightly

\* the walk has not ended
InWalk == bpc = "nightly_loop"

\* the message of main.rs:920
NoNightlyBuilt == "could not find a nightly that built"

\* every nightly tested so far installed and showed the regression
AllTestedYes == \A i \in DOMAIN evaluated : Evaluates(evaluated[i], Yes)

\* what the walk has left to go: nightly_iter first, then the date under
\* test, both above the epoch while the loop runs
WalkToGo == <<nightly_iter.current_date, nightly_date>>

WalkCloser(before, after) ==
    \/ after[1] < before[1]
    \/ after[1] = before[1] /\ after[2] < before[2]

\* the walk is over, and how
WalkEnded ==
    /\ bpc = "verify_end" =>
          /\ first_success = {nightly_date}
          /\ Evaluates(Nightly(nightly_date), No)
          /\ nightly_date > end_at
    /\ (bpc = "failed" /\ berr.msg = NoNightlyBuilt) =>
          /\ nightly_date <= end_at
          /\ first_success = {}
          /\ AllTestedYes
          /\ spc = "idle" /\ toolchains = <<>> /\ nightly_result.searched = <<>>
    /\ InWalk =>
          /\ first_success = {}
          /\ AllTestedYes
          /\ nightly_date <= nightly_iter.current_date
          /\ nightly_iter.current_date <= bounds.end

(* C33: the initial walk of the nightlies always ends.  While it runs a      *)
(* turn of the loop that changes the state can be taken, a turn that stays   *)
(* in the loop brings the pair (nightly_iter's date, date under test) down,  *)
(* and the date under test at or before the epoch ends the run with "could   *)
(* not find a nightly that built", no search run; the walk ends at the       *)
(* first No, at an error or there, whatever nightlies are missing and        *)
(* whichever show the regression.                                            *)
C33_WalkTerminates ==
    /\ [](InWalk => ENABLED <<WalkTurn>>_vars)
    /\ [][(InWalk /\ InWalk') => (nightly_date > end_at /\ WalkCloser(WalkToGo, WalkToGo'))]_vars
    /\ [][(InWalk /\ nightly_date <= end_at) =>
              (bpc' = "failed" /\ berr'.msg = NoNightlyBuilt)]_vars
    /\ []WalkEnded

\* the walk from day 6 met missing nightlies and nightlies that regress down
\* to the epoch, and the run failed
C33_Witness ==
    /\ bpc = "failed" /\ berr.msg = NoNightlyBuilt
    /\ bounds.end = MaxWalkDay
    /\ world.missing # {}
    /\ Len(evaluated) >= 2

\* the walk ended at the first nightly that passes, after a missing one
C33_WitnessPassed ==
    /\ bpc = "verify_end"
    /\ bounds.kind = "SearchNightlyBackwards"
    /\ nightly_date + 1 \in world.missing
    /\ Len(evaluated) >= 2

\* the nightly of the date under test was never published
MissingUnderTest ==
    /\ InWalk
    /\ nightly_date > end_at
    /\ install_and_test(Nightly(nightly_date)).err = "NotFound"

(* C34 as stated: a NotFound of the nightly under test does not end the      *)
(* walk, and the date tested next is the day before the missing one.         *)
C34_NotFoundSlipsOneDay ==
    [][MissingUnderTest => (InWalk' /\ nightly_date' = nightly_date - 1)]_vars

(* C34, what the code does: without --start the walk goes on with the day    *)
(* before the missing one, nightly_iter and last_failure as they were; with  *)
(* --start the run fails with "could not find" naming the missing nightly.   *)
C34_SlipsUnlessStartGiven ==
    [][MissingUnderTest =>
          /\ nightly_date' = nightly_date - 1
          /\ UNCHANGED <<nightly_iter, last_failure, first_success, evaluated>>
          /\ IF bounds.kind = "Dates"
             THEN bpc' = "failed"
                  /\ berr' = [msg |-> "could not find", at |-> <<Nightly(nightly_date)>>]
             ELSE InWalk']_vars

\* the nightly of the start date given is missing and the run has failed
C34_WitnessAbort ==
    /\ bpc = "failed" /\ berr.msg = "could not find"
    /\ bounds.kind = "Dates"
    /\ berr.at = <<Nightly(bounds.start)>>
    /\ bounds.start \in world.missing
    /\ bounds.start - 1 \notin world.missing /\ bounds.start > 1

\* without --start the walk slipped from a missing nightly to the day before
C34_WitnessSlip ==
    /\ InWalk
    /\ bounds.kind = "SearchNightlyBackwards"
    /\ nightly_date + 1 \in world.missing
    /\ nightly_date + 1 = bounds.end
    /\ Evaluates(Nightly(nightly_date), Yes)

\* the dates of the nightlies the walk installed and tested, in order
WalkTested == [i \in DOMAIN evaluated |-> evaluated[i].date]

(* C35 as stated: the walk only moves back in time.  Every date it installs  *)
(* and tests is earlier than every date it tested before, NotFound slips     *)
(* or not, and last_failure never moves to a later date.                     *)
C35_WalkOnlyMovesBack ==
    /\ [](InWalk => \A i, j \in DOMAIN WalkTested : i < j => WalkTested[j] < WalkTested[i])
    /\ [][InWalk => last_failure' <= last_failure]_vars

\* the date under test moved to a later day
MovedForward == InWalk /\ nightly_date > last_failure /\ evaluated # <<>>

(* C35, what the code does: nightly_iter does not see the slips.  The dates  *)
(* tested never grow and last_failure never moves to a later date, but       *)
(* after a Yes the date under test is nightly_iter's next date, which may    *)
(* be the date just tested or a later one when two or more missing           *)
(* nightlies were slipped over: the same nightly is then tested twice.       *)
C35_TestedDatesNeverGrow ==
    /\ [](InWalk => \A i, j \in DOMAIN WalkTested : i < j => WalkTested[j] <= WalkTested[i])
    /\ [][InWalk => last_failure' <= last_failure]_vars
    /\ [][(InWalk /\ InWalk' /\ nightly_date' > nightly_date) =>
              /\ Evaluates(Nightly(nightly_date), Yes)
              /\ nightly_date' = nightly_iter'.current_date
              /\ \A d \in nightly_date + 1 .. nightly_date' : d \in world.missing]_vars

\* the walk slipped over two missing nightlies and tested the same nightly
\* twice
C35_WitnessTwice ==
    /\ InWalk
    /\ Len(WalkTested) >= 2
    /\ WalkTested[Len(WalkTested)] = WalkTested[Len(WalkTested) - 1]

\* after three missing nightlies the date under test is later than the
\* nightly tested last
C35_WitnessForward ==
    /\ MovedForward
    /\ nightly_date > WalkTested[Len(WalkTested)]

\* no element of the slice is Unknown
NoUnknown == \A i \in DOMAIN slice : slice[i] # Unknown

\* the indices the caller's predicate was run on
Probed == {i \in DOMAIN calls : calls[i] > 0}

\* the depth measure of least_satisfying.rs:34: the trailing zeros of the
\* one-based index in the whole sequence
Height(idx) == trailing_zeros(start_offset + 1 + idx)

(* C36: when no verdict is Unknown each probe of least_satisfying is         *)
(* strictly deeper in the one-based binary tree than every probe before it   *)
(* (its index has fewer trailing zeros), so consecutive probes p, q have     *)
(* trailing_zeros(start_offset + 1 + q) < trailing_zeros(start_offset + 1 +  *)
(* p); and the predicate runs on at most floor(log2 n) + 2 of the n          *)
(* elements.                                                                 *)
C36_ProbesGoDeeper ==
    (InSearch /\ NoUnknown) =>
        /\ spc = "test" => \A i \in Probed : Height(next) < Height(i)
        /\ \A i, j \in Probed : i # j => Height(i) # Height(j)
        /\ Cardinality(Probed) <= BitLenF[Len(slice)] + 1

\* a search of sixteen elements, none Unknown, returned after five probes
C36_Witness ==
    /\ spc = "returned"
    /\ NoUnknown
    /\ Len(slice) = 16
    /\ Cardinality(Probed) = 5

\* a directory that is no link comes into being under the install root
TargetAppears == \E n \in fs' \ fs : n \notin links'

\* a call of install has returned an error
InstallFailed == op = "install" /\ ipc = "done" /\ result # "Ok"

\* the target of a downloaded toolchain is made by the rename that ends a
\* successful install and by nothing else, and a failed install did not make
\* it
TargetOnlyByRename ==
    /\ [][TargetAppears =>
              /\ ipc = "rename" /\ ipc' = "done" /\ result' = "Ok"
              /\ fs' = fs \cup {rustup_name(tc)}]_vars
    /\ [](InstallFailed => (rustup_name(tc) \in fs => dest_before))

(* C37 as stated: install is atomic.  The target of a downloaded toolchain   *)
(* appears only by the final rename of the scratch directory, after every    *)
(* component was extracted; a failed install has not made the target, and    *)
(* its scratch directory is discarded: no scratch directory is left in the   *)
(* temp root once install has returned.                                      *)
C37_AtomicInstall ==
    /\ TargetOnlyByRename
    /\ [](~tmpdir => scratch = 0)

(* C37, what the code does: the same, but the scratch directory of an        *)
(* install that failed in the rename (InstallError::Move) stays in the temp  *)
(* root; every other return of install removes it.                           *)
C37_ScratchLeftByFailedRename ==
    /\ TargetOnlyByRename
    /\ [][scratch' > scratch => (ipc = "install" /\ tmpdir' /\ ~tmpdir)]_vars
    /\ [][(tmpdir /\ ~tmpdir') =>
              IF result' = "Move" THEN scratch' = scratch /\ ipc = "rename"
              ELSE scratch' = scratch - 1]_vars

\* an install failed in the rename: no target, the scratch directory is there
C37_WitnessScratchLeft ==
    /\ InstallFailed
    /\ result = "Move"
    /\ rustup_name(tc) \notin fs
    /\ ~tmpdir
    /\ scratch = 1

\* a download failed: no target, no scratch directory
C37_WitnessDiscarded ==
    /\ InstallFailed
    /\ result = "Download"
    /\ rustup_name(tc) \notin fs
    /\ scratch = 0

\* the toolchains under the install root that the process put there
OwnToolchains == fs \ ForeignDirs

\* remove_toolchain has returned: install_and_test is about to return
ProbeOver == op = "remove_toolchain" /\ ipc = "done"

C38_WitnessFailedInstall ==
    /\ ProbeOver
    /\ ~store_cfg.preserve
    /\ ~dest_before
    /\ result = "Io"
    /\ scratch = 1

\* the end of the range passed the verification, or the search has its slice
HandedOver == bpc \in {"nightly_bisect", "nightly_search"}

(* C39: the nightly phase hands over at least two nightlies.  Once the end   *)
(* of the range is verified first_success is set and strictly earlier than   *)
(* last_failure, so the nightlies from first_success to last_failure are at  *)
(* least two, and the slice least_satisfying is called on is that sequence:  *)
(* never empty, never of one element.                                       *)
C39_HandoffHasTwoNightlies ==
    /\ HandedOver =>
          /\ first_success # {}
          /\ \A d \in first_success :
                /\ d < last_failure
                /\ Len(toolchains_between(d, last_failure)) >= 2
    /\ bpc = "nightly_search" =>
          /\ toolchains = toolchains_between(CHOOSE d \in first_success : TRUE, last_failure)
          /\ Len(slice) = Len(toolchains)
          /\ Len(slice) >= 2
          /\ spc # "panicked"

\* the search is handed two nightlies after the walk slipped over missing ones
C39_Witness ==
    /\ bpc = "nightly_search"
    /\ Len(slice) = 2
    /\ \E d \in world.missing : d < last_failure

\* the walk ended on the end of the range itself, which is rejected
C39_WitnessSameDay ==
    /\ bpc = "failed"
    /\ first_success = {last_failure}

\* the commits access.commits returned to bisect_ci_via
Fetched == get_commits_between(working_commit, bad_commit)

\* the commits among them that are less than 167 days old on the day of the run
Young == {Fetched.commits[i] : i \in 1 .. Len(Fetched.commits)} \cap
         {c \in 1 .. NumCommits : world.today - CommitDate(c) < RetentionDays}

\* the commit phase has its toolchains
InCommitPhase == bpc \in {"ci_verify_start", "ci_verify_end", "ci_bisect", "ci_search"}

\* the commit phase failed on the filtered sequence
FilterFailed ==
    /\ bpc = "failed"
    /\ berr.msg \in {"no CI builds available within last 167 days",
                     "expected to end with the end commit"}

(* C40: the commit phase keeps the commits less than 167 days old.  The      *)
(* toolchains of the phase are the fetched commits dated less than 167 days  *)
(* before today, each once and in their original order, and the last is the  *)
(* end commit; when no commit is left, or the last one left is not the end   *)
(* commit, the phase fails at once, with no toolchain installed in it, and   *)
(* it fails on the filter in no other case.                                  *)
C40_OnlyYoungCommitsSearched ==
    /\ [](InCommitPhase =>
            /\ Fetched.ok
            /\ {toolchains[i].commit : i \in 1 .. Len(toolchains)} = Young
            /\ \A i \in 1 .. Len(toolchains) :
                  /\ toolchains[i].kind = "Ci"
                  /\ world.today - CommitDate(toolchains[i].commit) < RetentionDays
            /\ \A i, j \in 1 .. Len(toolchains) :
                  i < j => toolchains[i].commit < toolchains[j].commit
            /\ toolchains # <<>>
            /\ toolchains[Len(toolchains)].commit = bad_commit)
    /\ [][(bpc = "ci_via" /\ Fetched.ok /\ bad_commit \notin Young) =>
            (FilterFailed' /\ evaluated' = <<>> /\ UNCHANGED toolchains)]_vars
    /\ [][(bpc = "ci_via" /\ FilterFailed') =>
            (Fetched.ok /\ bad_commit \notin Young /\ evaluated' = <<>>)]_vars
    /\ [](FilterFailed => evaluated = <<>>)
    /\ [](bpc = "ci_search" => Len(slice) = Cardinality(Young))

\* the search runs on a range the filter has shortened
C40_Witness ==
    /\ bpc = "ci_search"
    /\ Len(toolchains) < Len(Fetched.commits)
    /\ Len(toolchains) >= 2
    /\ world.today - CommitDate(toolchains[1].commit) = RetentionDays - 1

\* every commit of the range is too old
C40_WitnessNoneLeft ==
    /\ FilterFailed
    /\ Fetched.ok
    /\ Young = {}
    /\ evaluated = <<>>

=============================================================================
